---- MODULE Spec2Model ----
(***************************************************************************)
(* Azure/operatortrace: the tracing work queue (pkg/tracingqueue).         *)
(*                                                                         *)
(* TracingQueue wraps a client-go rate-limiting work queue keyed by        *)
(* NamespacedName and keeps, beside it, two maps from key to               *)
(* RequestWithTraceID: m (the merged request waiting for delivery) and     *)
(* softDeleted (the request moved aside by Done).  Producers (event        *)
(* handlers) call Add/AddAfter/AddRateLimited/Forget, workers loop on      *)
(* Get ... Done.                                                           *)
(***************************************************************************)
EXTENDS Naturals, Integers, Sequences, FiniteSets, TLC

(***************************************************************************)
(* Bounds of the model.                                                    *)
(***************************************************************************)
\* Calls of Add, AddAfter, AddRateLimited and Forget in one run.
MaxCalls == 3

\* The same, in the runs checked for progress under fairness.
MaxFairCalls == 2

\* The same, in the runs that fill the linked-span array.
MaxCapCalls == 13

\* Calls begun in a run that follows tq.mu from goroutine to goroutine.
MaxLockCalls == 2

\* The NamespacedNames in use.
Keys == {"default/foo", "default/bar"}

\* The worker goroutines looping on Get ... Done.
Workers == {"w1", "w2"}

\* The goroutines that call Add, AddAfter, AddRateLimited and Forget.
Producers == {"p1", "p2"}

(***************************************************************************)
(* pkg/types/request.go: the request and its causal metadata.              *)
(***************************************************************************)
\* len(req.LinkedSpans): LinkedSpans is a [10]LinkedSpan array.
MaxLinkedSpans == 10

\* A LinkedSpan / the TraceID and SpanID of a RequestParent.
SpanRef(t, s) == [TraceID |-> t, SpanID |-> s]

\* The zero value: RequestParent{} and LinkedSpan{} have empty IDs.
EmptyRef == SpanRef("", "")

\* The parents producers hand in: none, and two that share a trace ID.
ParentRefs == {EmptyRef, SpanRef("t1", "s1"), SpanRef("t1", "s2")}

\* RequestWithTraceID.  LinkedSpans holds the first LinkedSpanCount slots of
\* the array; the slots past the count are never read.
Request(k, p, ls) == [NamespacedName |-> k, Parent |-> p, LinkedSpans |-> ls]

LinkedSpanCount(req) == Len(req.LinkedSpans)

\* The request Get builds when neither map holds the key.
KeyOnlyRequest(k) == Request(k, EmptyRef, <<>>)

\* No request: a worker that holds nothing.
NoRequest == Request("", EmptyRef, <<>>)

\* The requests an event handler builds: a key, a parent, no linked spans.
HandlerRequests == {Request(k, p, <<>>) : k \in Keys, p \in ParentRefs}

VARIABLES
    queue,        \* tq.queue: the underlying client-go work queue
    m,            \* tq.m: key -> request, a Go map (DOMAIN m = its keys)
    softDeleted,  \* tq.softDeleted: key -> request
    worker,       \* each worker goroutine: where it is in Get ... Done
    calls,        \* history: how many Add*/Forget calls were made
    hist,         \* history: per key, the calls so far while they follow a scenario
    pending,      \* history: per key, the Add* calls made while it was checked out
    added,        \* history: per key, the span references handed in since its last delivery
    seen,         \* history: per worker, what `added` held for the key when Get returned
    dropped,      \* history: the keys whose full array made appendLinkedSpan drop a new span
    auditing,     \* history: whether this run keeps `added` and `seen`
    drainer,      \* the goroutine that calls ShutDownWithDrain: where it is
    mu,           \* tq.mu: the goroutine that holds it, or "free"
    caller,       \* each producer goroutine: the call it is in
    obj,          \* the resource the tracing client works on: its annotations
    opts,         \* the tracing client's Options
    ctx,          \* the span context in the caller's context.Context
    now,          \* the clock (time.Now), in ticks
    started,      \* what the last startSpanFromContext started
    extracted,    \* what the last extractTraceContextFromAnnotations returned
    persisted,    \* history: the span context last persisted on obj, and when
    server,       \* the resource as the API server stores it
    ender,        \* the EndTrace call: where it is; history: the other client's writes
    codec,        \* the strings handed to pkg/tracecontext and what it returned
    adapter,      \* the objectReconcilerAdapter and its Reconcile call: where it is
    writer,       \* the Update or Patch call, and the store's resource version
    event,        \* the update event handed to the predicate, and its answer
    config        \* newOptions: the options applied so far; history: the last one

\* tq.mu and the goroutines that take it in calls of Add, AddAfter,
\* AddRateLimited and Forget.
lockVars == <<mu, caller>>

\* The state outside the queue's own operations.
\* The tracing client's inputs and the span it started.
endVars == <<server, ender>>

\* The reconciler adapter and the writes through the tracing client.
sideVars == <<adapter, writer, event, config>>

traceVars == <<obj, opts, ctx, now, started, extracted, persisted, endVars, codec, sideVars>>

others == <<drainer, lockVars, traceVars>>

\* The queue's state and its history.
queueVars == <<queue, m, softDeleted, worker, calls, hist, pending, added, seen, dropped, auditing>>

vars == <<queue, m, softDeleted, worker, calls, hist, pending, added, seen, dropped, auditing, others>>

(***************************************************************************)
(* The Go map operations.                                                  *)
(***************************************************************************)
MapPut(mp, k, v) == [x \in DOMAIN mp \cup {k} |-> IF x = k THEN v ELSE mp[x]]

MapDelete(mp, k) == [x \in DOMAIN mp \ {k} |-> mp[x]]

EmptyMap == [x \in {} |-> NoRequest]

(***************************************************************************)
(* The client-go work queue behind tq.queue                                *)
(* (workqueue.TypedRateLimitingInterface): items is the FIFO of keys       *)
(* ready for delivery, dirty the keys that need processing, processing     *)
(* the keys handed out by Get and not yet Done, waiting the keys of the    *)
(* delaying queue whose delay has not elapsed.                             *)
(***************************************************************************)
wqNew == [items |-> <<>>, dirty |-> {}, processing |-> {}, waiting |-> {},
          shuttingDown |-> FALSE, drain |-> FALSE]

wqAdd(q, k) ==
    IF q.shuttingDown THEN q
    ELSE IF k \in q.dirty THEN q
    ELSE IF k \in q.processing THEN [q EXCEPT !.dirty = @ \cup {k}]
    ELSE [q EXCEPT !.dirty = @ \cup {k}, !.items = Append(@, k)]

\* duration <= 0 adds at once; otherwise the key waits for its delay.
wqAddAfter(q, k, duration) ==
    IF q.shuttingDown THEN q
    ELSE IF duration <= 0 THEN wqAdd(q, k)
    ELSE [q EXCEPT !.waiting = @ \cup {k}]

\* AddAfter(item, rateLimiter.When(item)): the controller rate limiter
\* always answers a positive delay.
wqAddRateLimited(q, k) == wqAddAfter(q, k, 1)

\* Forget only resets the rate limiter's failure count for the key.
wqForget(q, k) == q

\* Get of a non-empty queue: pops the head.
wqGet(q) ==
    [q EXCEPT !.items = Tail(@),
              !.processing = @ \cup {Head(q.items)},
              !.dirty = @ \ {Head(q.items)}]

wqDone(q, k) ==
    IF k \in q.dirty
    THEN [q EXCEPT !.processing = @ \ {k}, !.items = Append(@, k)]
    ELSE [q EXCEPT !.processing = @ \ {k}]

wqShutDown(q) == [q EXCEPT !.drain = FALSE, !.shuttingDown = TRUE]

wqShutDownWithDrain(q) == [q EXCEPT !.drain = TRUE, !.shuttingDown = TRUE]

(***************************************************************************)
(* History: what the callers did, kept beside the program's state to state *)
(* the properties.  No action of the program reads it.                     *)
(***************************************************************************)
\* The non-empty span references a request carries.
Refs(req) ==
    ({req.Parent} \cup {req.LinkedSpans[i] : i \in 1..Len(req.LinkedSpans)}) \ {EmptyRef}

\* A worker holds the key: Get has returned it and Done was not yet called.
CheckedOut(k) ==
    \E w \in Workers : worker[w].pc = "work" /\ worker[w].req.NamespacedName = k

\* The call sequences on one key that hist follows from the first call on.
Scenarios ==
    { <<"Add", "Add", "GetKey", "GetRead">>,
      <<"Add", "GetKey", "GetRead", "Done", "Add", "GetKey", "GetRead">>,
      <<"Add", "GetKey", "GetRead", "Add", "Done", "GetKey", "GetRead">>,
      <<"Add", "Add", "AddAfter">>,
      <<"Add", "Forget", "GetKey", "GetRead">>,
      <<"Add", "GetKey", "GetRead", "Add", "Forget", "Done", "GetKey", "GetRead">> }

IsPrefix(s, t) == Len(s) <= Len(t) /\ \A i \in 1..Len(s) : s[i] = t[i]

OpNames(h) == [i \in 1..Len(h) |-> h[i].op]

Event(op, req) == [op |-> op, req |-> req]

\* The key left every scenario.
Off == <<Event("off", NoRequest)>>

Track(h, e) ==
    IF h = Off THEN Off
    ELSE IF \E sc \in Scenarios : IsPrefix(OpNames(Append(h, e)), sc)
         THEN Append(h, e)
         ELSE Off

NoAdded == [since |-> {}, out |-> {}]

\* A call of Add, AddAfter, AddRateLimited or Forget with req.
NoteCall(op, req) ==
    LET k == req.NamespacedName IN
    /\ calls' = calls + 1
    /\ hist' = [hist EXCEPT ![k] = Track(@, Event(op, req))]
    /\ pending' = IF op # "Forget" /\ CheckedOut(k) /\ ~queue.shuttingDown
                  THEN [pending EXCEPT ![k] = @ \cup {op}]
                  ELSE pending
    /\ added' = IF op = "Forget" \/ ~auditing THEN added
                ELSE [added EXCEPT
                        ![k].since = @ \cup Refs(req),
                        ![k].out = IF op = "Add" /\ CheckedOut(k)
                                   THEN @ \cup ({req.Parent} \ {EmptyRef})
                                   ELSE @]
    /\ dropped' = IF /\ op \in {"Add", "AddRateLimited"}
                      /\ k \in DOMAIN m
                      /\ req.Parent \notin ({m[k].Parent, EmptyRef}
                                \cup {m[k].LinkedSpans[i] : i \in 1..Len(m[k].LinkedSpans)})
                      /\ Len(m[k].LinkedSpans) >= MaxLinkedSpans
                   THEN dropped \cup {k}
                   ELSE dropped
    /\ UNCHANGED <<seen, auditing, others>>

(***************************************************************************)
(* pkg/tracingqueue/tracingqueue.go                                        *)
(***************************************************************************)
Contains(seq, x) == \E i \in 1..Len(seq) : seq[i] = x

\* appendLinkedSpan without the loop that skips a span already present.
appendLinkedSpanKeepsDuplicates(req, span) ==
    IF span.TraceID = "" /\ span.SpanID = "" THEN req
    ELSE IF LinkedSpanCount(req) < MaxLinkedSpans
         THEN [req EXCEPT !.LinkedSpans = Append(@, span)]
         ELSE req

\* appendLinkedSpan with the bound check off by one.
appendLinkedSpanOffByOne(req, span) ==
    IF span.TraceID = "" /\ span.SpanID = "" THEN req
    ELSE IF Contains(req.LinkedSpans, span) THEN req
    ELSE IF LinkedSpanCount(req) <= MaxLinkedSpans
         THEN [req EXCEPT !.LinkedSpans = Append(@, span)]
         ELSE req

\* appendLinkedSpan: the request with the span appended, unless the span is
\* empty, already present, or the array is full.
appendLinkedSpan(req, span) ==
    IF span.TraceID = "" /\ span.SpanID = "" THEN req
    ELSE IF Contains(req.LinkedSpans, span) THEN req
    ELSE IF LinkedSpanCount(req) < MaxLinkedSpans
         THEN [req EXCEPT !.LinkedSpans = Append(@, span)]
         ELSE req

\* The merge that makes the newest parent the parent and links the older one.
MergePrefersLatest(existing, req) ==
    IF existing.Parent.TraceID # req.Parent.TraceID
         \/ existing.Parent.SpanID # req.Parent.SpanID
    THEN [appendLinkedSpan(existing, existing.Parent) EXCEPT !.Parent = req.Parent]
    ELSE existing

\* The merge of Add and AddRateLimited into the entry already in tq.m.
\* The merge that gives an entry without a parent the parent of the request.
MergeParentFillsEmpty(existing, req) ==
    IF existing.Parent = EmptyRef THEN [existing EXCEPT !.Parent = req.Parent]
    ELSE IF existing.Parent # req.Parent
         THEN appendLinkedSpan(existing, SpanRef(req.Parent.TraceID, req.Parent.SpanID))
         ELSE existing

MergeParent(existing, req) ==
    IF existing.Parent.TraceID # req.Parent.TraceID
         \/ existing.Parent.SpanID # req.Parent.SpanID
    THEN appendLinkedSpan(existing, SpanRef(req.Parent.TraceID, req.Parent.SpanID))
    ELSE existing

(***************************************************************************)
(* pkg/constants/constants.go, and time.  Time is counted in ticks of the  *)
(* clock; a time.Time is the tick it names and the zero time.Time is 0.    *)
(***************************************************************************)
DefaultAnnotationPrefix == "operatortrace.azure.microsoft.com"

TraceStateTimestampKey == "operatortrace_ts"

\* time.Minute, in ticks.
Minute == 2

TraceExpirationTime == 20

DefaultTraceExpiration == TraceExpirationTime * Minute

\* An annotation key "prefix/suffix"; the empty string is NoKey.
AnnotationKey(prefix, suffix) == <<prefix, suffix>>

NoKey == <<>>

EmittedTraceParentAnnotationSuffix == "traceparent"

EmittedTraceStateAnnotationSuffix == "tracestate"

DefaultTraceParentAnnotation == AnnotationKey(DefaultAnnotationPrefix, EmittedTraceParentAnnotationSuffix)

DefaultTraceStateAnnotation == AnnotationKey(DefaultAnnotationPrefix, EmittedTraceStateAnnotationSuffix)

LegacyTraceIDAnnotation == AnnotationKey(DefaultAnnotationPrefix, "trace-id")

LegacySpanIDAnnotation == AnnotationKey(DefaultAnnotationPrefix, "span-id")

LegacyTraceIDTimeAnnotation == AnnotationKey(DefaultAnnotationPrefix, "trace-id-time")

(***************************************************************************)
(* go.opentelemetry.io/otel/trace as the code uses it.  A trace id is 32   *)
(* hex digits and a span id 16, not all zero; they are written here by     *)
(* short names, "zz" being a string that is not such an id.                *)
(***************************************************************************)
TraceIDHexes == {"aa", "cc", "ee"}

SpanIDHexes == {"b1", "d1", "f1"}

\* trace.TraceIDFromHex and trace.SpanIDFromHex succeed.
TraceIDFromHexOk(t) == t \in TraceIDHexes

SpanIDFromHexOk(sp) == sp \in SpanIDHexes

SpanContext(t, sp, remote) == [TraceID |-> t, SpanID |-> sp, Remote |-> remote]

NoSpanContext == SpanContext("", "", FALSE)

IsValid(sc) == TraceIDFromHexOk(sc.TraceID) /\ SpanIDFromHexOk(sc.SpanID)

(***************************************************************************)
(* pkg/tracecontext/tracecontext.go.  A traceparent value                  *)
(* "00-<trace id>-<span id>-01" is the record of its two ids and the empty *)
(* string the record of two empty ids; a tracestate value "<key>=<time>"   *)
(* is the record of its key and its time, the empty string having an empty *)
(* key.                                                                    *)
(***************************************************************************)
TraceParent(t, sp) == [TraceID |-> t, SpanID |-> sp]

NoTraceParent == TraceParent("", "")

TraceState(key, time) == [key |-> key, time |-> time]

NoTraceState == TraceState("", 0)

\* The result and the error of TraceParentFromIDs.
TraceParentFromIDs(traceIDHex, spanIDHex) ==
    IF traceIDHex = "" \/ spanIDHex = "" THEN [traceParent |-> NoTraceParent, err |-> TRUE]
    ELSE IF ~TraceIDFromHexOk(traceIDHex) THEN [traceParent |-> NoTraceParent, err |-> TRUE]
    ELSE IF ~SpanIDFromHexOk(spanIDHex) THEN [traceParent |-> NoTraceParent, err |-> TRUE]
    ELSE [traceParent |-> TraceParent(traceIDHex, spanIDHex), err |-> FALSE]

\* The propagator's Extract gives a valid remote span context or none.
SpanContextFromTraceData(traceParent, traceState) ==
    IF traceParent = NoTraceParent THEN [spanContext |-> NoSpanContext, err |-> TRUE]
    ELSE IF ~IsValid(SpanContext(traceParent.TraceID, traceParent.SpanID, TRUE))
         THEN [spanContext |-> NoSpanContext, err |-> TRUE]
    ELSE [spanContext |-> SpanContext(traceParent.TraceID, traceParent.SpanID, TRUE),
          err |-> FALSE]

ExtractTimestampFromTraceState(raw, key) ==
    IF raw = NoTraceState \/ key = "" THEN [time |-> 0, ok |-> FALSE]
    ELSE IF raw.key # key THEN [time |-> 0, ok |-> FALSE]
    ELSE [time |-> raw.time, ok |-> TRUE]

\* The span context's own tracestate is empty; the timestamp is inserted.
BuildTraceStateString(sc, timestampKey, time) ==
    IF timestampKey # "" THEN TraceState(timestampKey, time) ELSE NoTraceState

\* annotations[key] for the three kinds of value; a missing key reads as
\* the empty string.
ParentValue(annotations, key) ==
    IF key \in DOMAIN annotations THEN annotations[key] ELSE NoTraceParent

StateValue(annotations, key) ==
    IF key \in DOMAIN annotations THEN annotations[key] ELSE NoTraceState

LegacyValue(annotations, key) ==
    IF key \in DOMAIN annotations THEN annotations[key] ELSE ""

LegacyTime(annotations, key) ==
    IF key \in DOMAIN annotations THEN annotations[key] ELSE 0

RECURSIVE firstParentValue(_, _)
firstParentValue(annotations, keys) ==
    IF keys = <<>> THEN NoTraceParent
    ELSE IF Head(keys) # NoKey /\ ParentValue(annotations, Head(keys)) # NoTraceParent
         THEN ParentValue(annotations, Head(keys))
    ELSE firstParentValue(annotations, Tail(keys))

RECURSIVE firstStateValue(_, _)
firstStateValue(annotations, keys) ==
    IF keys = <<>> THEN NoTraceState
    ELSE IF Head(keys) # NoKey /\ StateValue(annotations, Head(keys)) # NoTraceState
         THEN StateValue(annotations, Head(keys))
    ELSE firstStateValue(annotations, Tail(keys))

AnnotationTraceContext(traceParent, traceState, timestamp) ==
    [TraceParent |-> traceParent, TraceState |-> traceState, Timestamp |-> timestamp]

NoAnnotationTraceContext == AnnotationTraceContext(NoTraceParent, NoTraceState, 0)

\* tracecontext.ExtractTraceContextFromAnnotations: the result and ok.
ExtractTraceContextFromAnnotations(annotations, cfg) ==
    LET traceParent == firstParentValue(annotations, cfg.TraceParentKeys)
        traceState == firstStateValue(annotations, cfg.TraceStateKeys)
        ts == ExtractTimestampFromTraceState(traceState, cfg.TraceStateTimestampKey)
        traceID == LegacyValue(annotations, cfg.LegacyTraceIDKey)
        spanID == LegacyValue(annotations, cfg.LegacySpanIDKey)
        legacy == TraceParentFromIDs(traceID, spanID)
    IN
    IF DOMAIN annotations = {} THEN [result |-> NoAnnotationTraceContext, ok |-> FALSE]
    ELSE IF traceParent # NoTraceParent
         THEN [result |-> AnnotationTraceContext(traceParent, traceState,
                              IF cfg.TraceStateTimestampKey # "" /\ ts.ok THEN ts.time ELSE 0),
               ok |-> TRUE]
    ELSE IF cfg.LegacyTraceIDKey = NoKey \/ cfg.LegacySpanIDKey = NoKey
         THEN [result |-> NoAnnotationTraceContext, ok |-> FALSE]
    ELSE IF traceID = "" \/ spanID = ""
         THEN [result |-> NoAnnotationTraceContext, ok |-> FALSE]
    ELSE IF legacy.err THEN [result |-> NoAnnotationTraceContext, ok |-> FALSE]
    ELSE [result |-> AnnotationTraceContext(legacy.traceParent, NoTraceState,
                         IF cfg.LegacyTimestampKey # NoKey
                         THEN LegacyTime(annotations, cfg.LegacyTimestampKey) ELSE 0),
          ok |-> TRUE]

(***************************************************************************)
(* pkg/tracecontext/tracecontext.go on the characters of its strings.  A   *)
(* string is the sequence of its characters, an identifier the sequence of *)
(* its hexadecimal digits' values.  trace.TraceIDFromHex, SpanIDFromHex    *)
(* and the W3C propagator are the OpenTelemetry library's.                 *)
(***************************************************************************)
TraceIDHexLen == 32

SpanIDHexLen == 16

HexDigits == <<"0", "1", "2", "3", "4", "5", "6", "7", "8", "9", "a", "b", "c", "d", "e", "f">>

Chars(text) == {text[i] : i \in 1..Len(text)}

IsLowerHex(text) == Chars(text) \subseteq Chars(HexDigits)

\* hex.Decode and ID.String(): the digits' values, and their digits.
DecodeHex(text) ==
    [i \in 1..Len(text) |-> (CHOOSE v \in 1..Len(HexDigits) : HexDigits[v] = text[i]) - 1]

EncodeHex(id) == [i \in 1..Len(id) |-> HexDigits[id[i] + 1]]

NilID(id) == \A i \in 1..Len(id) : id[i] = 0

\* IDFromHex that accepts the all-zero identifier.
IDFromHexAllowsNil(h, n) ==
    IF Len(h) # n THEN [id |-> <<>>, err |-> TRUE]
    ELSE IF ~IsLowerHex(h) THEN [id |-> <<>>, err |-> TRUE]
    ELSE [id |-> DecodeHex(h), err |-> FALSE]

\* trace.TraceIDFromHex and trace.SpanIDFromHex, for the length n: the
\* length, lowercase hexadecimal digits only, and not all zero.
IDFromHex(h, n) ==
    IF Len(h) # n THEN [id |-> <<>>, err |-> TRUE]
    ELSE IF ~IsLowerHex(h) THEN [id |-> <<>>, err |-> TRUE]
    ELSE IF NilID(DecodeHex(h)) THEN [id |-> <<>>, err |-> TRUE]
    ELSE [id |-> DecodeHex(h), err |-> FALSE]

\* fmt.Sprintf("00-%s-%s-01", ...).
FormatTraceParent(traceIDText, spanIDText) ==
    <<"0", "0", "-">> \o traceIDText \o <<"-">> \o spanIDText \o <<"-", "0", "1">>

\* TraceParentFromIDs that puts the span id first.
TraceParentTextSwapped(traceIDHex, spanIDHex) ==
    LET traceID == IDFromHex(traceIDHex, TraceIDHexLen)
        spanID == IDFromHex(spanIDHex, SpanIDHexLen)
    IN
    IF traceIDHex = <<>> \/ spanIDHex = <<>> THEN [traceParent |-> <<>>, err |-> TRUE]
    ELSE IF traceID.err THEN [traceParent |-> <<>>, err |-> TRUE]
    ELSE IF spanID.err THEN [traceParent |-> <<>>, err |-> TRUE]
    ELSE [traceParent |-> FormatTraceParent(EncodeHex(spanID.id), EncodeHex(traceID.id)),
          err |-> FALSE]

\* TraceParentFromIDs: the traceparent string and the error.
TraceParentText(traceIDHex, spanIDHex) ==
    LET traceID == IDFromHex(traceIDHex, TraceIDHexLen)
        spanID == IDFromHex(spanIDHex, SpanIDHexLen)
    IN
    IF traceIDHex = <<>> \/ spanIDHex = <<>> THEN [traceParent |-> <<>>, err |-> TRUE]
    ELSE IF traceID.err THEN [traceParent |-> <<>>, err |-> TRUE]
    ELSE IF spanID.err THEN [traceParent |-> <<>>, err |-> TRUE]
    ELSE [traceParent |-> FormatTraceParent(EncodeHex(traceID.id), EncodeHex(spanID.id)),
          err |-> FALSE]

\* The W3C propagator's Extract of a traceparent: version, trace id, span
\* id and flags, of 2, 32, 16 and 2 lowercase hexadecimal digits, separated
\* by "-"; version 00 allows nothing after the flags and no flags above 02;
\* version ff is invalid; the identifiers are not all zero.
ExtractTraceParent(h) ==
    LET none == [TraceID |-> <<>>, SpanID |-> <<>>, ok |-> FALSE]
        flagsAt == 3 + TraceIDHexLen + 1 + SpanIDHexLen + 1 + 1
        version == SubSeq(h, 1, 2)
        traceID == SubSeq(h, 4, 3 + TraceIDHexLen)
        spanID == SubSeq(h, 5 + TraceIDHexLen, 4 + TraceIDHexLen + SpanIDHexLen)
        flags == SubSeq(h, flagsAt, flagsAt + 1)
    IN
    IF Len(h) < flagsAt + 1 THEN none
    ELSE IF h[3] # "-" \/ h[4 + TraceIDHexLen] # "-" \/ h[flagsAt - 1] # "-" THEN none
    ELSE IF ~(IsLowerHex(version) /\ IsLowerHex(traceID) /\ IsLowerHex(spanID)
              /\ IsLowerHex(flags)) THEN none
    ELSE IF version = <<"f", "f">> THEN none
    ELSE IF Len(h) > flagsAt + 1 /\ h[flagsAt + 2] # "-" THEN none
    ELSE IF version = <<"0", "0">>
            /\ (Len(h) > flagsAt + 1 \/ DecodeHex(flags)[1] # 0 \/ DecodeHex(flags)[2] > 2)
         THEN none
    ELSE IF NilID(DecodeHex(traceID)) \/ NilID(DecodeHex(spanID)) THEN none
    ELSE [TraceID |-> DecodeHex(traceID), SpanID |-> DecodeHex(spanID), ok |-> TRUE]

\* SpanContextFromTraceData: the identifiers of the span context, as
\* TraceID().String() and SpanID().String() print them, and the error.
SpanContextText(traceParent) ==
    LET sc == ExtractTraceParent(traceParent) IN
    IF traceParent = <<>> THEN [TraceID |-> <<>>, SpanID |-> <<>>, err |-> TRUE]
    ELSE IF ~sc.ok THEN [TraceID |-> <<>>, SpanID |-> <<>>, err |-> TRUE]
    ELSE [TraceID |-> EncodeHex(sc.TraceID), SpanID |-> EncodeHex(sc.SpanID), err |-> FALSE]

\* A trace.TraceState is the list of its members, the first the newest.
Member(key, value) == [Key |-> key, Value |-> value]

\* time.Format(time.RFC3339Nano) of a tick.
FormatTime(time) == ToString(time)

\* TraceState.Delete(key).
TraceStateDelete(ts, key) == SelectSeq(ts, LAMBDA mem : mem.Key # key)

\* TraceState.Insert(key, value): the member is put first and an older
\* member of the key goes (the lists here stay below the 32 members a
\* TraceState holds).
TraceStateInsert(ts, key, value) ==
    <<Member(key, value)>> \o TraceStateDelete(ts, key)

\* TraceState.String(): key=value members separated by commas.
RECURSIVE TraceStateString(_)
TraceStateString(ts) ==
    IF ts = <<>> THEN <<>>
    ELSE <<Head(ts).Key, "=", Head(ts).Value>> \o
         (IF Len(ts) > 1 THEN <<",">> ELSE <<>>) \o TraceStateString(Tail(ts))

\* trace.ParseTraceState of a string TraceState.String() wrote.
RECURSIVE ParseTraceState(_)
ParseTraceState(text) ==
    IF Len(text) < 3 THEN <<>>
    ELSE <<Member(text[1], text[3])>> \o
         (IF Len(text) > 4 THEN ParseTraceState(SubSeq(text, 5, Len(text))) ELSE <<>>)

\* BuildTraceStateString that writes the timestamp after the members there.
BuildTraceStateTextAppends(traceState, timestampKey, time) ==
    IF timestampKey # ""
    THEN TraceStateString(traceState \o <<Member(timestampKey, FormatTime(time))>>)
    ELSE TraceStateString(traceState)

\* BuildTraceStateString for a span context with the given TraceState.
BuildTraceStateText(traceState, timestampKey, time) ==
    IF timestampKey # ""
    THEN TraceStateString(TraceStateInsert(TraceStateDelete(traceState, timestampKey),
                                           timestampKey, FormatTime(time)))
    ELSE TraceStateString(traceState)

(***************************************************************************)
(* pkg/client/options.go                                                   *)
(***************************************************************************)
TraceParentRelationshipLink == "link"

TraceParentRelationshipParent == "parent"

defaultOptions ==
    [AnnotationPrefix |-> DefaultAnnotationPrefix,
     TraceExpiration |-> DefaultTraceExpiration,
     TraceStateTimestampKey |-> TraceStateTimestampKey,
     EmittedTraceParentAnnotationSuffix |-> EmittedTraceParentAnnotationSuffix,
     EmittedTraceStateAnnotationSuffix |-> EmittedTraceStateAnnotationSuffix,
     IncomingTraceParentAnnotation |-> NoKey,
     IncomingTraceStateAnnotation |-> NoKey,
     IncomingTraceRelationship |-> TraceParentRelationshipLink]

\* strings.TrimSuffix(prefix, "/") on the prefixes used here.
sanitizePrefix(prefix) ==
    IF prefix = "example.com/" THEN "example.com"
    ELSE IF prefix = "/" THEN ""
    ELSE prefix

\* strings.TrimPrefix(strings.TrimSpace(suffix), "/") on the suffixes used here.
sanitizeSuffix(suffix) ==
    IF suffix = "/tp" THEN "tp"
    ELSE IF suffix = " " \/ suffix = "/" THEN ""
    ELSE suffix

buildAnnotationKey(prefix, fallback, suffix) ==
    IF prefix = ""
    THEN IF fallback # NoKey THEN fallback ELSE AnnotationKey("", suffix)
    ELSE AnnotationKey(sanitizePrefix(prefix), sanitizeSuffix(suffix))

annotationPrefix(o) ==
    IF o.AnnotationPrefix = "" THEN DefaultAnnotationPrefix
    ELSE sanitizePrefix(o.AnnotationPrefix)

emittedTraceParentAnnotationKey(o) ==
    buildAnnotationKey(annotationPrefix(o), DefaultTraceParentAnnotation,
                       o.EmittedTraceParentAnnotationSuffix)

emittedTraceStateAnnotationKey(o) ==
    buildAnnotationKey(annotationPrefix(o), DefaultTraceStateAnnotation,
                       o.EmittedTraceStateAnnotationSuffix)

legacyTraceIDAnnotationKey(o) ==
    buildAnnotationKey(DefaultAnnotationPrefix, LegacyTraceIDAnnotation, "trace-id")

legacySpanIDAnnotationKey(o) ==
    buildAnnotationKey(DefaultAnnotationPrefix, LegacySpanIDAnnotation, "span-id")

legacyTraceTimeAnnotationKey(o) ==
    buildAnnotationKey(DefaultAnnotationPrefix, LegacyTraceIDTimeAnnotation, "trace-id-time")

traceStateTimestampKey(o) ==
    IF o.TraceStateTimestampKey = "" THEN TraceStateTimestampKey
    ELSE o.TraceStateTimestampKey

WithAnnotationPrefix(o, prefix) ==
    IF prefix = "" THEN o ELSE [o EXCEPT !.AnnotationPrefix = sanitizePrefix(prefix)]

\* WithTraceExpiration without its check of the duration.
WithTraceExpirationOfAnyDuration(o, d) == [o EXCEPT !.TraceExpiration = d]

WithTraceExpiration(o, d) ==
    IF d <= 0 THEN o ELSE [o EXCEPT !.TraceExpiration = d]

WithIncomingTraceParentAnnotation(o, key) ==
    IF key = NoKey THEN o ELSE [o EXCEPT !.IncomingTraceParentAnnotation = key]

WithIncomingTraceStateAnnotation(o, key) ==
    IF key = NoKey THEN o ELSE [o EXCEPT !.IncomingTraceStateAnnotation = key]

WithIncomingTraceRelationship(o, rel) ==
    IF rel # TraceParentRelationshipLink /\ rel # TraceParentRelationshipParent THEN o
    ELSE [o EXCEPT !.IncomingTraceRelationship = rel]

traceExpiration(o) ==
    IF o.TraceExpiration <= 0 THEN DefaultTraceExpiration ELSE o.TraceExpiration

WithTraceStateTimestampKey(o, key) ==
    IF key = "" THEN o ELSE [o EXCEPT !.TraceStateTimestampKey = key]

WithEmittedAnnotationSuffixes(o, traceParentSuffix, traceStateSuffix) ==
    LET withParent ==
            IF traceParentSuffix # ""
            THEN [o EXCEPT !.EmittedTraceParentAnnotationSuffix =
                               sanitizeSuffix(traceParentSuffix)]
            ELSE o
    IN  IF traceStateSuffix # ""
        THEN [withParent EXCEPT !.EmittedTraceStateAnnotationSuffix =
                                    sanitizeSuffix(traceStateSuffix)]
        ELSE withParent

\* An Option is a function on the options, or nil; here its name and the
\* arguments it was made with.
Option(fn, args) == [fn |-> fn, args |-> args]

NilOption == Option("nil", <<>>)

\* fn(&opts) of newOptions: the option is called unless it is nil.
applyOption(o, option) ==
    IF option.fn = "nil" THEN o
    ELSE IF option.fn = "WithAnnotationPrefix"
        THEN WithAnnotationPrefix(o, option.args[1])
    ELSE IF option.fn = "WithTraceExpiration"
        THEN WithTraceExpiration(o, option.args[1])
    ELSE IF option.fn = "WithTraceStateTimestampKey"
        THEN WithTraceStateTimestampKey(o, option.args[1])
    ELSE IF option.fn = "WithIncomingTraceParentAnnotation"
        THEN WithIncomingTraceParentAnnotation(o, option.args[1])
    ELSE IF option.fn = "WithIncomingTraceStateAnnotation"
        THEN WithIncomingTraceStateAnnotation(o, option.args[1])
    ELSE IF option.fn = "WithIncomingTraceRelationship"
        THEN WithIncomingTraceRelationship(o, option.args[1])
    ELSE WithEmittedAnnotationSuffixes(o, option.args[1], option.args[2])

(***************************************************************************)
(* pkg/client/annotations.go                                               *)
(***************************************************************************)
storedTraceContext(traceParent, traceState, timestamp, relationship) ==
    [TraceParent |-> traceParent, TraceState |-> traceState,
     Timestamp |-> timestamp, Relationship |-> relationship]

NoStoredTraceContext == storedTraceContext(NoTraceParent, NoTraceState, 0, "")

baseCfg(o) ==
    [TraceParentKeys |-> <<>>,
     TraceStateKeys |-> <<>>,
     LegacyTraceIDKey |-> legacyTraceIDAnnotationKey(o),
     LegacySpanIDKey |-> legacySpanIDAnnotationKey(o),
     LegacyTimestampKey |-> legacyTraceTimeAnnotationKey(o),
     TraceStateTimestampKey |-> traceStateTimestampKey(o)]

candidate(parentKey, stateKey, relationship) ==
    [parentKey |-> parentKey, stateKey |-> stateKey, relationship |-> relationship]

\* The candidates of extractTraceContextFromAnnotations, in order.
candidates(o) ==
    <<candidate(o.IncomingTraceParentAnnotation, o.IncomingTraceStateAnnotation,
                o.IncomingTraceRelationship),
      candidate(emittedTraceParentAnnotationKey(o), emittedTraceStateAnnotationKey(o),
                TraceParentRelationshipParent)>>
    \o (IF \/ DefaultTraceParentAnnotation # emittedTraceParentAnnotationKey(o)
            \/ DefaultTraceStateAnnotation # emittedTraceStateAnnotationKey(o)
        THEN <<candidate(DefaultTraceParentAnnotation, DefaultTraceStateAnnotation,
                         TraceParentRelationshipParent)>>
        ELSE <<>>)

\* The extraction for one candidate: baseCfg with the candidate's keys.
candidateExtract(annotations, o, cand) ==
    ExtractTraceContextFromAnnotations(annotations,
        [baseCfg(o) EXCEPT !.TraceParentKeys = <<cand.parentKey>>,
                           !.TraceStateKeys = <<cand.stateKey>>])

\* The loop over the candidates from the i-th on, then the legacy lookup.
RECURSIVE extractFrom(_, _, _)
extractFrom(annotations, o, i) ==
    LET cands == candidates(o) IN
    IF i > Len(cands)
    THEN LET last == ExtractTraceContextFromAnnotations(annotations, baseCfg(o)) IN
         IF last.ok
         THEN [stored |-> storedTraceContext(last.result.TraceParent, last.result.TraceState,
                              last.result.Timestamp, TraceParentRelationshipParent),
               ok |-> TRUE]
         ELSE [stored |-> NoStoredTraceContext, ok |-> FALSE]
    ELSE IF cands[i].parentKey = NoKey THEN extractFrom(annotations, o, i + 1)
    ELSE LET r == candidateExtract(annotations, o, cands[i]) IN
         IF r.ok
         THEN [stored |-> storedTraceContext(r.result.TraceParent, r.result.TraceState,
                              r.result.Timestamp,
                              IF cands[i].relationship = ""
                              THEN o.IncomingTraceRelationship
                              ELSE cands[i].relationship),
               ok |-> TRUE]
         ELSE extractFrom(annotations, o, i + 1)

extractTraceContextFromAnnotations(annotations, o) == extractFrom(annotations, o, 1)

RemoveKeys(annotations, keys) == [k \in DOMAIN annotations \ keys |-> annotations[k]]

pruneLegacyTraceAnnotations(annotations, o) ==
    RemoveKeys(annotations, {legacyTraceIDAnnotationKey(o), legacySpanIDAnnotationKey(o),
                             legacyTraceTimeAnnotationKey(o)})

persistTraceCarrier(annotations, o, traceParent, traceState) ==
    LET pruned == pruneLegacyTraceAnnotations(annotations, o)
        withParent == IF traceParent # NoTraceParent
                      THEN MapPut(pruned, emittedTraceParentAnnotationKey(o), traceParent)
                      ELSE RemoveKeys(pruned, {emittedTraceParentAnnotationKey(o)})
    IN IF traceState # NoTraceState
       THEN MapPut(withParent, emittedTraceStateAnnotationKey(o), traceState)
       ELSE RemoveKeys(withParent, {emittedTraceStateAnnotationKey(o)})

\* addTraceAnnotations writing the traceparent without a tracestate.
addTraceAnnotationsWithoutTimestamp(sc, annotations, o, t) ==
    IF ~IsValid(sc) THEN annotations
    ELSE persistTraceCarrier(annotations, o, TraceParent(sc.TraceID, sc.SpanID),
                             NoTraceState)

\* The annotations after addTraceAnnotations(ctx, obj, opts) at time t; the
\* propagator injects the traceparent of the span context.
addTraceAnnotations(sc, annotations, o, t) ==
    IF ~IsValid(sc) THEN annotations
    ELSE persistTraceCarrier(annotations, o, TraceParent(sc.TraceID, sc.SpanID),
                             BuildTraceStateString(sc, traceStateTimestampKey(o), t))

\* traceContextExpired that counts the end of the window as expired.
traceContextExpiredAtBoundary(ts, o, t) ==
    IF ts = 0 THEN FALSE ELSE t - ts >= traceExpiration(o)

\* time.Since(ts) > opts.traceExpiration(), at time t.
traceContextExpired(ts, o, t) ==
    IF ts = 0 THEN FALSE ELSE t - ts > traceExpiration(o)

(***************************************************************************)
(* pkg/client/span_helpers.go.  A resource is its annotations and the      *)
(* TraceID and SpanID conditions of its status (has = FALSE: the resource  *)
(* has none).                                                              *)
(***************************************************************************)
Conditions(has, traceID, spanID, time) ==
    [has |-> has, TraceID |-> traceID, SpanID |-> spanID, time |-> time]

NoConditions == Conditions(FALSE, "", "", 0)

Resource(annotations, conditions) == [annotations |-> annotations, conditions |-> conditions]

\* The condition's time is before now minus the expiration.
conditionTraceExpired(time, t) == time < t - TraceExpirationTime * Minute

\* applyStoredTraceContext that makes every stored context the parent.
applyStoredTraceContextAlwaysParent(c, stored, o) ==
    LET sc == SpanContextFromTraceData(stored.TraceParent, stored.TraceState) IN
    IF sc.err THEN [ctx |-> c, links |-> <<>>]
    ELSE [ctx |-> sc.spanContext, links |-> <<>>]

\* The context and the link after a stored trace context was applied: a
\* parent goes into the context as remote span context, a link stays out of it.
applyStoredTraceContext(c, stored, o) ==
    LET sc == SpanContextFromTraceData(stored.TraceParent, stored.TraceState) IN
    IF sc.err THEN [ctx |-> c, links |-> <<>>]
    ELSE IF stored.Relationship = TraceParentRelationshipParent
         THEN [ctx |-> sc.spanContext, links |-> <<>>]
         ELSE [ctx |-> c, links |-> <<sc.spanContext>>]

\* The context from the TraceID and SpanID conditions: a remote parent.
conditionContext(c, conditions, t) ==
    IF ~conditions.has \/ conditions.TraceID = "" THEN c
    ELSE IF conditionTraceExpired(conditions.time, t) THEN c
    ELSE IF ~TraceIDFromHexOk(conditions.TraceID) THEN c
    ELSE IF SpanIDFromHexOk(conditions.SpanID)
         THEN SpanContext(conditions.TraceID, conditions.SpanID, TRUE)
         ELSE SpanContext(conditions.TraceID, "", TRUE)

\* Without a live span: the resource's annotations, then its conditions.
storedAnchor(c, o, res, t) ==
    LET ex == extractTraceContextFromAnnotations(res.annotations, o) IN
    IF ex.ok /\ ~traceContextExpired(ex.stored.Timestamp, o, t)
    THEN applyStoredTraceContext(c, ex.stored, o)
    ELSE [ctx |-> conditionContext(c, res.conditions, t), links |-> <<>>]

\* tracer.Start: the new span is the child of the valid span context of the
\* context, or the root of a new trace; its span id is a new one.
NewSpan(parent) ==
    SpanContext(IF IsValid(parent) THEN parent.TraceID ELSE "ee",
                IF parent.SpanID = "f1" THEN "d1" ELSE "f1", FALSE)

Started(parent, links, t) ==
    [done |-> TRUE, parent |-> IF IsValid(parent) THEN parent ELSE NoSpanContext,
     links |-> links, span |-> NewSpan(parent), at |-> t]

NotStarted ==
    [done |-> FALSE, parent |-> NoSpanContext, links |-> <<>>, span |-> NoSpanContext, at |-> 0]

NotExtracted == [done |-> FALSE, stored |-> NoStoredTraceContext, ok |-> FALSE]

NotPersisted == [done |-> FALSE, span |-> NoSpanContext, at |-> 0, n |-> 0]

\* The links of the entries of a request's array that have both ids, well
\* formed; the empty slots of the array are among the entries skipped.
LinkableSpan(linkedSpan) ==
    /\ linkedSpan.TraceID # ""
    /\ linkedSpan.SpanID # ""
    /\ TraceIDFromHexOk(linkedSpan.TraceID)
    /\ SpanIDFromHexOk(linkedSpan.SpanID)

sliceFromLinkedSpans(linkedSpans) ==
    LET kept == SelectSeq(linkedSpans, LinkableSpan) IN
    [i \in 1..Len(kept) |-> SpanContext(kept[i].TraceID, kept[i].SpanID, TRUE)]

\* A request's array without a linked span.
NoLinkedSpans == <<>>

\* startSpanFromContext that looks at the resource before the live span.
startSpanFromContextStoredFirst(c, o, res, t, linkedSpansArray) ==
    LET a == storedAnchor(NoSpanContext, o, res, t) IN
    IF IsValid(a.ctx) \/ a.links # <<>>
    THEN Started(a.ctx, a.links \o sliceFromLinkedSpans(linkedSpansArray), t)
    ELSE IF IsValid(c) THEN Started(c, <<>>, t)
    ELSE Started(c, sliceFromLinkedSpans(linkedSpansArray), t)

startSpanFromContext(c, o, res, t, linkedSpansArray) ==
    IF IsValid(c) THEN Started(c, <<>>, t)
    ELSE LET a == storedAnchor(c, o, res, t) IN
         Started(a.ctx, a.links \o sliceFromLinkedSpans(linkedSpansArray), t)

\* Nothing was handed to pkg/tracecontext.
NoCodec == [pc |-> "none"]

\* No reconciler was built, and no Update or Patch was called.
NoAdapter == [pc |-> "none"]

NoWriter == [pc |-> "none"]

\* No update event was handed to the predicate.
NoEvent == [pc |-> "none"]

\* newOptions was not called.
NoBuild == [pc |-> "none"]

\* EndTrace was not called and no other client has written.
NotEnding == [pc |-> "idle", wrote |-> NoTraceParent, writes |-> 0]

NoCall == [pc |-> "idle", op |-> "", req |-> NoRequest, duration |-> 0]

\* Nobody has called ShutDownWithDrain or any other method.
OthersInit ==
    /\ drainer = "idle"
    /\ mu = "free"
    /\ caller = [p \in Producers |-> NoCall]
    /\ obj = Resource(EmptyMap, NoConditions)
    /\ opts = defaultOptions
    /\ ctx = NoSpanContext
    /\ now = 0
    /\ started = NotStarted
    /\ extracted = NotExtracted
    /\ persisted = NotPersisted
    /\ server = Resource(EmptyMap, NoConditions)
    /\ ender = NotEnding
    /\ codec = NoCodec
    /\ adapter = NoAdapter
    /\ writer = NoWriter
    /\ event = NoEvent
    /\ config = NoBuild

\* NewTracingQueue, and the workers about to call Get.
Init ==
    /\ queue = wqNew
    /\ m = EmptyMap
    /\ softDeleted = EmptyMap
    /\ worker = [w \in Workers |-> [pc |-> "idle", req |-> NoRequest]]
    /\ calls = 0
    /\ hist = [k \in Keys |-> <<>>]
    /\ pending = [k \in Keys |-> {}]
    /\ added = [k \in Keys |-> NoAdded]
    /\ seen = [w \in Workers |-> NoAdded]
    /\ dropped = {}
    /\ auditing = FALSE
    /\ OthersInit

\* The requests a caller can pass: a handler's, or the one a worker got from
\* Get and requeues.
CallerRequests ==
    HandlerRequests \cup {worker[w].req : w \in {x \in Workers : worker[x].pc = "work"}}

\* Add that queues the key of every request, whether or not it is queued.
AddQueuesEveryRequest(req) ==
    LET k == req.NamespacedName IN
    /\ m' = IF k \in DOMAIN m THEN MapPut(m, k, MergeParent(m[k], req))
                              ELSE MapPut(m, k, req)
    /\ queue' = [queue EXCEPT !.dirty = @ \cup {k}, !.items = Append(@, k)]
    /\ UNCHANGED <<softDeleted, worker>>
    /\ NoteCall("Add", req)

\* Add that releases the key in the work queue to have it queued at once.
AddForcesRequeue(req) ==
    LET k == req.NamespacedName IN
    /\ m' = IF k \in DOMAIN m THEN MapPut(m, k, MergeParent(m[k], req))
                              ELSE MapPut(m, k, req)
    /\ queue' = wqAdd(wqDone(queue, k), k)
    /\ UNCHANGED <<softDeleted, worker>>
    /\ NoteCall("Add", req)

\* Add that merges into an existing entry without marking the key dirty.
AddNoRequeue(req) ==
    LET k == req.NamespacedName IN
    /\ IF k \in DOMAIN m
       THEN /\ m' = MapPut(m, k, MergeParent(m[k], req))
            /\ queue' = queue
       ELSE /\ m' = MapPut(m, k, req)
            /\ queue' = wqAdd(queue, k)
    /\ UNCHANGED <<softDeleted, worker>>
    /\ NoteCall("Add", req)

Add(req) ==
    LET k == req.NamespacedName IN
    /\ m' = IF k \in DOMAIN m THEN MapPut(m, k, MergeParent(m[k], req))
                              ELSE MapPut(m, k, req)
    /\ queue' = wqAdd(queue, k)
    /\ UNCHANGED <<softDeleted, worker>>
    /\ NoteCall("Add", req)

\* AddAfter that stores and schedules whether or not the key has an entry.
AddAfterOverwrites(req, duration) ==
    LET k == req.NamespacedName IN
    /\ m' = MapPut(m, k, req)
    /\ queue' = wqAddAfter(queue, k, duration)
    /\ UNCHANGED <<softDeleted, worker>>
    /\ NoteCall("AddAfter", req)

\* tval is copied from req before req is reset, and tval is what is stored.
AddAfter(req, duration) ==
    LET k == req.NamespacedName IN
    /\ IF k \notin DOMAIN m
       THEN /\ m' = MapPut(m, k, req)
            /\ queue' = wqAddAfter(queue, k, duration)
       ELSE UNCHANGED <<m, queue>>
    /\ UNCHANGED <<softDeleted, worker>>
    /\ NoteCall("AddAfter", req)

\* AddRateLimited that leaves an existing entry as it is, as AddAfter does.
AddRateLimitedWithoutMerge(req) ==
    LET k == req.NamespacedName IN
    /\ m' = IF k \in DOMAIN m THEN m ELSE MapPut(m, k, req)
    /\ queue' = wqAddRateLimited(queue, k)
    /\ UNCHANGED <<softDeleted, worker>>
    /\ NoteCall("AddRateLimited", req)

AddRateLimited(req) ==
    LET k == req.NamespacedName IN
    /\ m' = IF k \in DOMAIN m THEN MapPut(m, k, MergeParent(m[k], req))
                              ELSE MapPut(m, k, req)
    /\ queue' = wqAddRateLimited(queue, k)
    /\ UNCHANGED <<softDeleted, worker>>
    /\ NoteCall("AddRateLimited", req)

Forget(req) ==
    LET k == req.NamespacedName IN
    /\ IF k \in DOMAIN m
       THEN /\ m' = MapDelete(m, k)
            /\ queue' = wqForget(queue, k)
       ELSE UNCHANGED <<m, queue>>
    /\ UNCHANGED <<softDeleted, worker>>
    /\ NoteCall("Forget", req)

\* The delaying queue's waiting loop: a key's delay elapses and it is added.
DelayElapsed(k) ==
    /\ k \in queue.waiting
    /\ queue' = wqAdd([queue EXCEPT !.waiting = @ \ {k}], k)
    /\ UNCHANGED <<m, softDeleted, worker>>
    /\ UNCHANGED <<calls, hist, pending, added, seen, dropped, auditing, others>>

\* Get, first half: tq.queue.Get() hands out the head key.
GetKey(w) ==
    LET k == Head(queue.items) IN
    /\ worker[w].pc = "idle"
    /\ queue.items # <<>>
    /\ queue' = wqGet(queue)
    /\ worker' = [worker EXCEPT ![w] = [pc |-> "got", req |-> KeyOnlyRequest(k)]]
    /\ UNCHANGED <<m, softDeleted>>
    /\ hist' = [hist EXCEPT ![k] = Track(@, Event("GetKey", KeyOnlyRequest(k)))]
    /\ UNCHANGED <<calls, pending, added, seen, dropped, auditing, others>>

\* Get that reports shutdown only for a draining shutdown.
GetShutdownOnlyWhenDraining(w) ==
    /\ worker[w].pc = "idle"
    /\ queue.items = <<>>
    /\ queue.shuttingDown
    /\ queue.drain
    /\ worker' = [worker EXCEPT ![w] = [pc |-> "exit", req |-> NoRequest]]
    /\ UNCHANGED <<queue, m, softDeleted>>
    /\ UNCHANGED <<calls, hist, pending, added, seen, dropped, auditing, others>>

\* Get on an empty queue that is shutting down: shutdown = true.
GetShutdown(w) ==
    /\ worker[w].pc = "idle"
    /\ queue.items = <<>>
    /\ queue.shuttingDown
    /\ worker' = [worker EXCEPT ![w] = [pc |-> "exit", req |-> NoRequest]]
    /\ UNCHANGED <<queue, m, softDeleted>>
    /\ UNCHANGED <<calls, hist, pending, added, seen, dropped, auditing, others>>

\* The key of the request a worker holds.
HeldKey(w) == worker[w].req.NamespacedName

\* What Get returns for the key once it holds tq.mu.
GetValue(k) ==
    IF k \in DOMAIN m THEN m[k]
    ELSE IF k \in DOMAIN softDeleted THEN softDeleted[k]
    ELSE KeyOnlyRequest(k)

\* Get, second half: under tq.mu, read the request of the key.
GetRead(w) ==
    LET k == worker[w].req.NamespacedName IN
    /\ worker[w].pc = "got"
    /\ worker' = [worker EXCEPT ![w] = [pc |-> "work", req |-> GetValue(k)]]
    /\ UNCHANGED <<queue, m, softDeleted>>
    /\ hist' = [hist EXCEPT ![k] = Track(@, Event("GetRead", GetValue(k)))]
    /\ pending' = [pending EXCEPT ![k] = {}]
    /\ seen' = [seen EXCEPT ![w] = added[k]]
    /\ added' = [added EXCEPT ![k] = NoAdded]
    /\ UNCHANGED <<calls, dropped, auditing, others>>

\* Done(req) by the worker that holds req.
Done(w) ==
    LET k == worker[w].req.NamespacedName IN
    /\ worker[w].pc = "work"
    /\ queue' = wqDone(queue, k)
    /\ IF k \in DOMAIN m
       THEN /\ softDeleted' = MapPut(softDeleted, k, m[k])
            /\ m' = MapDelete(m, k)
       ELSE UNCHANGED <<m, softDeleted>>
    /\ worker' = [worker EXCEPT ![w] = [pc |-> "idle", req |-> NoRequest]]
    /\ hist' = [hist EXCEPT ![k] = Track(@, Event("Done", worker[w].req))]
    /\ seen' = [seen EXCEPT ![w] = NoAdded]
    /\ UNCHANGED <<calls, pending, added, dropped, auditing, others>>

ShutDown ==
    /\ ~queue.shuttingDown
    /\ queue' = wqShutDown(queue)
    /\ UNCHANGED <<m, softDeleted, worker>>
    /\ UNCHANGED <<calls, hist, pending, added, seen, dropped, auditing, others>>

\* The calls the producers and the workers make, at most n in a run.
Calls(n) ==
    \/ \E req \in CallerRequests : calls < n /\ Add(req)
    \/ \E req \in CallerRequests, d \in {0, 1} : calls < n /\ AddAfter(req, d)
    \/ \E req \in CallerRequests : calls < n /\ AddRateLimited(req)
    \/ \E req \in CallerRequests : calls < n /\ Forget(req)

\* The delaying queue's loop and the workers' loops.
Run ==
    \/ \E k \in Keys : DelayElapsed(k)
    \/ \E w \in Workers : GetKey(w)
    \/ \E w \in Workers : GetShutdown(w)
    \/ \E w \in Workers : GetRead(w)
    \/ \E w \in Workers : Done(w)
    \/ ShutDown

Next == Calls(MaxCalls) \/ Run

Spec == Init /\ [][Next]_vars

\* The same program, with the history of handed-in span references kept.
AuditInit ==
    /\ queue = wqNew
    /\ m = EmptyMap
    /\ softDeleted = EmptyMap
    /\ worker = [w \in Workers |-> [pc |-> "idle", req |-> NoRequest]]
    /\ calls = 0
    /\ hist = [k \in Keys |-> <<>>]
    /\ pending = [k \in Keys |-> {}]
    /\ added = [k \in Keys |-> NoAdded]
    /\ seen = [w \in Workers |-> NoAdded]
    /\ dropped = {}
    /\ auditing = TRUE
    /\ OthersInit

AuditSpec == AuditInit /\ [][Next]_vars

\* The same program where the workers keep calling Get and Done and the
\* delays elapse; the callers may stop at any time.
NextFair == Calls(MaxFairCalls) \/ Run

Fairness ==
    /\ WF_vars(\E w \in Workers : GetKey(w))
    /\ \A w \in Workers : WF_vars(GetRead(w)) /\ WF_vars(Done(w))
    /\ \A k \in Keys : WF_vars(DelayElapsed(k))

FairSpec == Init /\ [][NextFair]_vars /\ Fairness

(***************************************************************************)
(* The runs that fill the linked-span array: one key, and parents handed   *)
(* in in a fixed order, the n-th call passing the n-th of twelve distinct  *)
(* parents (the thirteenth call passes the first again).                   *)
(***************************************************************************)
CapTraceIDs == <<"c1", "c2", "c3", "c4", "c5", "c6", "c7", "c8", "c9", "c10", "c11", "c12">>

CapRef(i) == SpanRef(CapTraceIDs[((i - 1) % Len(CapTraceIDs)) + 1], "s1")

CapRequests == {Request("default/foo", CapRef(i), <<>>) : i \in {calls + 1}}

NextCap ==
    \/ \E req \in CapRequests : calls < MaxCapCalls /\ Add(req)
    \/ \E req \in CapRequests : calls < MaxCapCalls /\ AddRateLimited(req)
    \/ Run

SpecCap == Init /\ [][NextCap]_vars

(***************************************************************************)
(* The same runs begun by a request without a parent, as an event handler  *)
(* builds it for an object without trace information: the first call and   *)
(* the thirteenth pass no parent, the calls between them eleven distinct   *)
(* parents.                                                                *)
(***************************************************************************)
MaxEmptyCapCalls == 13

EmptyCapRefs ==
    <<EmptyRef>> \o [i \in 1..(MaxLinkedSpans + 1) |-> CapRef(i)] \o <<EmptyRef>>

EmptyCapRef(i) == EmptyCapRefs[((i - 1) % Len(EmptyCapRefs)) + 1]

EmptyCapRequests == {Request("default/foo", EmptyCapRef(i), <<>>) : i \in {calls + 1}}

NextEmptyCap ==
    \/ \E req \in EmptyCapRequests : calls < MaxEmptyCapCalls /\ Add(req)
    \/ \E req \in EmptyCapRequests : calls < MaxEmptyCapCalls /\ AddRateLimited(req)
    \/ Run

SpecEmptyCap == Init /\ [][NextEmptyCap]_vars

(***************************************************************************)
(* Adds before any Get: the event handlers add their requests to a new     *)
(* queue, and only then the workers start to call Get and Done.            *)
(***************************************************************************)
MaxAddCalls == 3

\* TracingQueue.Len.
QueueLen == Cardinality(DOMAIN m)

\* Get was not called yet.
NoGetYet ==
    /\ queue.processing = {}
    /\ softDeleted = EmptyMap
    /\ \A w \in Workers : worker[w].pc = "idle"

NextAdds ==
    \/ \E req \in HandlerRequests : calls < MaxAddCalls /\ NoGetYet /\ Add(req)
    \/ \E w \in Workers : GetKey(w)
    \/ \E w \in Workers : GetRead(w)
    \/ \E w \in Workers : Done(w)

AddsSpec == Init /\ [][NextAdds]_vars

(***************************************************************************)
(* Duplicates: one key, and producers that hand their parents in in a      *)
(* fixed order in which a parent comes twice and one request has no        *)
(* parent.                                                                 *)
(***************************************************************************)
MaxMergeCalls == 5

MergeRefs ==
    <<SpanRef("t1", "s1"), SpanRef("t1", "s2"), EmptyRef, SpanRef("t1", "s2"), SpanRef("t2", "s3")>>

MergeRef(i) == MergeRefs[((i - 1) % Len(MergeRefs)) + 1]

MergeRequests == {Request("default/foo", MergeRef(i), <<>>) : i \in {calls + 1}}

NextMerge ==
    \/ \E req \in MergeRequests : calls < MaxMergeCalls /\ Add(req)
    \/ \E req \in MergeRequests : calls < MaxMergeCalls /\ AddRateLimited(req)
    \/ Run

MergeSpec == Init /\ [][NextMerge]_vars

(***************************************************************************)
(* Shutdown.  ShutDownWithDrain is two steps of its caller: the work       *)
(* queue's ShutDownWithDrain sets the flags and then waits until no key is *)
(* being processed (or a plain ShutDown ends the drain); after that the    *)
(* caller takes tq.mu and clears both maps.                                *)
(***************************************************************************)
\* ShutDownWithDrain that takes tq.mu before it drains.
ShutDownWithDrainBeginHoldingMutex ==
    /\ drainer = "idle"
    /\ mu = "free"
    /\ mu' = "drainer"
    /\ queue' = wqShutDownWithDrain(queue)
    /\ drainer' = "draining"
    /\ UNCHANGED <<m, softDeleted, worker, caller, traceVars>>
    /\ UNCHANGED <<calls, hist, pending, added, seen, dropped, auditing>>

ShutDownWithDrainBegin ==
    /\ drainer = "idle"
    /\ queue' = wqShutDownWithDrain(queue)
    /\ drainer' = "draining"
    /\ UNCHANGED <<m, softDeleted, worker, lockVars, traceVars>>
    /\ UNCHANGED <<calls, hist, pending, added, seen, dropped, auditing>>

ShutDownWithDrainReturn ==
    /\ drainer = "draining"
    /\ queue.processing = {} \/ ~queue.drain
    /\ m' = EmptyMap
    /\ softDeleted' = EmptyMap
    /\ drainer' = "done"
    /\ UNCHANGED <<queue, worker, lockVars, traceVars>>
    /\ UNCHANGED <<calls, hist, pending, added, seen, dropped, auditing>>

\* ShutDown at any time, also during a drain, which it ends.
ShutDownAgain ==
    /\ queue.shuttingDown
    /\ queue.drain
    /\ queue' = wqShutDown(queue)
    /\ UNCHANGED <<m, softDeleted, worker>>
    /\ UNCHANGED <<calls, hist, pending, added, seen, dropped, auditing, others>>

NextShutdown ==
    \/ Calls(MaxFairCalls)
    \/ Run
    \/ ShutDownWithDrainBegin
    \/ ShutDownWithDrainReturn
    \/ ShutDownAgain

\* The workers loop on Get, process and call Done; the delays elapse; the
\* work queue's ShutDownWithDrain returns once nothing is being processed.
ShutdownFairness ==
    /\ Fairness
    /\ \A w \in Workers : WF_vars(GetShutdown(w))
    /\ WF_vars(ShutDownWithDrainReturn)

ShutdownSpec == Init /\ [][NextShutdown]_vars /\ ShutdownFairness

(***************************************************************************)
(* tq.mu, step by step.  Every method that touches the maps is two steps   *)
(* of its goroutine: tq.mu.Lock(), which waits while another goroutine     *)
(* holds the mutex, and the rest of the method with the deferred Unlock.   *)
(* The work queue's own Get and ShutDownWithDrain are the places where a   *)
(* goroutine waits for something other than tq.mu.                         *)
(***************************************************************************)
LockRequests == {Request(k, SpanRef("t1", "s1"), <<>>) : k \in Keys}

LockOps == {"Add", "AddAfter", "AddRateLimited", "Forget"}

historyVars == <<hist, pending, added, seen, dropped, auditing>>

\* A producer calls Add, AddAfter, AddRateLimited or Forget.
BeginCall(p, op, req, duration) ==
    /\ caller[p].pc = "idle"
    /\ calls < MaxLockCalls
    /\ calls' = calls + 1
    /\ caller' = [caller EXCEPT ![p] = [pc |-> "lock", op |-> op, req |-> req,
                                         duration |-> duration]]
    /\ UNCHANGED <<queue, m, softDeleted, worker, drainer, mu, historyVars, traceVars>>

\* tq.mu.Lock() of that call.
CallLock(p) ==
    /\ caller[p].pc = "lock"
    /\ mu = "free"
    /\ mu' = p
    /\ caller' = [caller EXCEPT ![p].pc = "locked"]
    /\ UNCHANGED <<queue, m, softDeleted, worker, drainer, calls, historyVars, traceVars>>

\* The bodies of Add, AddAfter, AddRateLimited and Forget under tq.mu.
CallBody(p) ==
    LET req == caller[p].req
        k == req.NamespacedName
        op == caller[p].op
        merged == IF k \in DOMAIN m THEN MapPut(m, k, MergeParent(m[k], req))
                                     ELSE MapPut(m, k, req)
    IN
    /\ caller[p].pc = "locked"
    /\ mu = p
    /\ m' = CASE op = "Add" -> merged
               [] op = "AddRateLimited" -> merged
               [] op = "AddAfter" -> IF k \in DOMAIN m THEN m ELSE MapPut(m, k, req)
               [] op = "Forget" -> MapDelete(m, k)
    /\ queue' = CASE op = "Add" -> wqAdd(queue, k)
                   [] op = "AddRateLimited" -> wqAddRateLimited(queue, k)
                   [] op = "AddAfter" -> IF k \in DOMAIN m THEN queue
                                         ELSE wqAddAfter(queue, k, caller[p].duration)
                   [] op = "Forget" -> IF k \in DOMAIN m THEN wqForget(queue, k) ELSE queue
    /\ mu' = "free"
    /\ caller' = [caller EXCEPT ![p] = NoCall]
    /\ UNCHANGED <<softDeleted, worker, drainer, calls, historyVars, traceVars>>

\* Get after tq.queue.Get() returned a key: tq.mu.Lock().
GetLock(w) ==
    /\ worker[w].pc = "got"
    /\ mu = "free"
    /\ mu' = w
    /\ worker' = [worker EXCEPT ![w].pc = "reading"]
    /\ UNCHANGED <<queue, m, softDeleted, drainer, caller, calls, historyVars, traceVars>>

\* Get under tq.mu: read the request of the key, unlock, return.
GetBody(w) ==
    /\ worker[w].pc = "reading"
    /\ mu = w
    /\ worker' = [worker EXCEPT ![w] = [pc |-> "work", req |-> GetValue(HeldKey(w))]]
    /\ mu' = "free"
    /\ UNCHANGED <<queue, m, softDeleted, drainer, caller, calls, historyVars, traceVars>>

\* Done: tq.mu.Lock().
DoneLock(w) ==
    /\ worker[w].pc = "work"
    /\ mu = "free"
    /\ mu' = w
    /\ worker' = [worker EXCEPT ![w].pc = "finishing"]
    /\ UNCHANGED <<queue, m, softDeleted, drainer, caller, calls, historyVars, traceVars>>

\* Done under tq.mu.
DoneBody(w) ==
    LET k == HeldKey(w) IN
    /\ worker[w].pc = "finishing"
    /\ mu = w
    /\ queue' = wqDone(queue, k)
    /\ IF k \in DOMAIN m
       THEN /\ softDeleted' = MapPut(softDeleted, k, m[k])
            /\ m' = MapDelete(m, k)
       ELSE UNCHANGED <<m, softDeleted>>
    /\ worker' = [worker EXCEPT ![w] = [pc |-> "idle", req |-> NoRequest]]
    /\ mu' = "free"
    /\ UNCHANGED <<drainer, caller, calls, historyVars, traceVars>>

\* ShutDownWithDrain: tq.queue.ShutDownWithDrain() has returned, tq.mu.Lock().
DrainLock ==
    /\ drainer = "draining"
    /\ queue.processing = {} \/ ~queue.drain
    /\ mu = "free"
    /\ mu' = "drainer"
    /\ drainer' = "clearing"
    /\ UNCHANGED <<queue, m, softDeleted, worker, caller, calls, historyVars, traceVars>>

\* ShutDownWithDrain under tq.mu: both maps are cleared.
DrainBody ==
    /\ drainer = "clearing"
    /\ mu = "drainer"
    /\ m' = EmptyMap
    /\ softDeleted' = EmptyMap
    /\ drainer' = "done"
    /\ mu' = "free"
    /\ UNCHANGED <<queue, worker, caller, calls, historyVars, traceVars>>

\* What the goroutine that holds tq.mu does next.
HolderStep ==
    \/ \E p \in Producers : CallBody(p)
    \/ \E w \in Workers : GetBody(w)
    \/ \E w \in Workers : DoneBody(w)
    \/ DrainBody

NextLock ==
    \/ \E p \in Producers, op \in LockOps, req \in LockRequests, d \in {0, 1} :
            (op = "AddAfter" \/ d = 0) /\ BeginCall(p, op, req, d)
    \/ \E p \in Producers : CallLock(p)
    \/ \E k \in Keys : DelayElapsed(k)
    \/ \E w \in Workers : GetKey(w)
    \/ \E w \in Workers : GetShutdown(w)
    \/ \E w \in Workers : GetLock(w)
    \/ \E w \in Workers : DoneLock(w)
    \/ ShutDown
    \/ ShutDownWithDrainBegin
    \/ DrainLock
    \/ HolderStep

\* A goroutine that holds tq.mu goes on; sync.Mutex hands the mutex to
\* every goroutine that keeps waiting for it.
LockFairness ==
    /\ WF_vars(HolderStep)
    /\ \A p \in Producers : SF_vars(CallLock(p))
    /\ \A w \in Workers : SF_vars(DoneLock(w))

LockSpec == Init /\ [][NextLock]_vars /\ LockFairness

(***************************************************************************)
(* The tracing client's helpers applied to one resource: the resource, the *)
(* options, the caller's context and the clock are drawn at the start.     *)
(***************************************************************************)
QueueInit ==
    /\ queue = wqNew
    /\ m = EmptyMap
    /\ softDeleted = EmptyMap
    /\ worker = [w \in Workers |-> [pc |-> "idle", req |-> NoRequest]]
    /\ calls = 0
    /\ hist = [k \in Keys |-> <<>>]
    /\ pending = [k \in Keys |-> {}]
    /\ added = [k \in Keys |-> NoAdded]
    /\ seen = [w \in Workers |-> NoAdded]
    /\ dropped = {}
    /\ auditing = FALSE
    /\ drainer = "idle"
    /\ mu = "free"
    /\ caller = [p \in Producers |-> NoCall]

\* The keys a peer system writes, as the tests configure them.
ExternalTraceParentKey == AnnotationKey("external", "traceparent")

ExternalTraceStateKey == AnnotationKey("external", "tracestate")

\* The time of the runs, and the expiration the options may set.
StartTime == 100

ShortExpiration == 2

AnchorOptions ==
    { WithTraceExpiration(
        WithIncomingTraceRelationship(
          WithIncomingTraceStateAnnotation(
            WithIncomingTraceParentAnnotation(
              WithAnnotationPrefix(defaultOptions, prefix), ik[1]), ik[2]), rel), d) :
      prefix \in {"", "example.com/"},
      ik \in {<<NoKey, NoKey>>, <<ExternalTraceParentKey, ExternalTraceStateKey>>},
      rel \in {TraceParentRelationshipLink, TraceParentRelationshipParent},
      d \in {0, ShortExpiration} }

\* Timestamps around the two expirations, and none.
Stamps ==
    {0, StartTime,
     StartTime - ShortExpiration, StartTime - ShortExpiration - 1,
     StartTime - DefaultTraceExpiration, StartTime - DefaultTraceExpiration - 1}

\* One annotation, or none.
Entry(present, key, value) == IF present THEN key :> value ELSE EmptyMap

\* A carrier under a pair of keys: a traceparent and a tracestate with the
\* timestamp, when there is one.
Carrier(parentKey, stateKey, traceParent, stamp) ==
    Entry(TRUE, parentKey, traceParent)
    @@ Entry(stamp # 0, stateKey, TraceState(TraceStateTimestampKey, stamp))

LegacyAnnotations(traceID, spanID, stamp) ==
    Entry(TRUE, LegacyTraceIDAnnotation, traceID)
    @@ Entry(TRUE, LegacySpanIDAnnotation, spanID)
    @@ Entry(stamp # 0, LegacyTraceIDTimeAnnotation, stamp)

\* The annotations a resource may carry: from a peer system, from a client
\* with the prefix example.com, from a client with the default prefix, and
\* from an old client.
AnchorAnnotations ==
    { inc @@ em @@ def @@ leg :
        inc \in {EmptyMap} \cup
                {Carrier(ExternalTraceParentKey, ExternalTraceStateKey, tp, st) :
                   tp \in {TraceParent("aa", "b1"), TraceParent("zz", "b1")}, st \in Stamps},
        em \in {EmptyMap} \cup
               {Carrier(AnnotationKey("example.com", "traceparent"),
                        AnnotationKey("example.com", "tracestate"),
                        TraceParent("cc", "d1"), st) : st \in Stamps},
        def \in {EmptyMap} \cup
                {Carrier(DefaultTraceParentAnnotation, DefaultTraceStateAnnotation,
                         TraceParent("cc", "b1"), st) : st \in {0, StartTime}},
        leg \in {EmptyMap} \cup
                {LegacyAnnotations(t, "d1", st) : t \in {"aa", "zz"}, st \in {0, StartTime}} }

AnchorConditions ==
    {NoConditions} \cup
    {Conditions(TRUE, "aa", "f1", st) :
       st \in {StartTime, StartTime - DefaultTraceExpiration,
               StartTime - DefaultTraceExpiration - 1}}

AnchorInit ==
    /\ QueueInit
    /\ obj \in {Resource(a, c) : a \in AnchorAnnotations, c \in AnchorConditions}
    /\ opts \in AnchorOptions
    /\ ctx \in {NoSpanContext, SpanContext("ee", "b1", FALSE)}
    /\ now = StartTime
    /\ started = NotStarted
    /\ extracted = NotExtracted
    /\ persisted = NotPersisted
    /\ server = obj
    /\ ender = NotEnding
    /\ codec = NoCodec
    /\ adapter = NoAdapter
    /\ writer = NoWriter
    /\ event = NoEvent
    /\ config = NoBuild

queueAndLockVars == <<queueVars, drainer, lockVars>>

\* A client method starts its span for the resource.
StartSpan ==
    /\ started' = startSpanFromContext(ctx, opts, obj, now, NoLinkedSpans)
    /\ UNCHANGED <<obj, opts, ctx, now, extracted, persisted, endVars, queueAndLockVars, codec, sideVars>>

\* EmbedTraceIDInRequest and EndTrace read the stored trace context.
ExtractStored ==
    /\ extracted' = [done |-> TRUE] @@ extractTraceContextFromAnnotations(obj.annotations, opts)
    /\ UNCHANGED <<obj, opts, ctx, now, started, persisted, endVars, queueAndLockVars, codec, sideVars>>

NextAnchor == StartSpan \/ ExtractStored

AnchorSpec == AnchorInit /\ [][NextAnchor]_vars

(***************************************************************************)
(* A resource that only this system writes: a client starts a span for it  *)
(* and persists the span's context on it (Create, Update, Patch), time     *)
(* passes, and a later call without a live span starts its span.           *)
(***************************************************************************)
\* The clock is read within MaxElapsed ticks of the start and of the end of
\* the expiration that began at the start.
MaxElapsed == 2

Readings(o) == {StartTime + a + b : a \in 0..MaxElapsed, b \in {0, traceExpiration(o)}}

\* Contexts persisted in a run.
MaxPersists == 2

PersistInit ==
    /\ QueueInit
    /\ obj \in {Resource(a, NoConditions) :
                  a \in {EmptyMap, LegacyAnnotations("aa", "d1", StartTime),
                         Carrier(DefaultTraceParentAnnotation, DefaultTraceStateAnnotation,
                                 TraceParent("cc", "b1"), StartTime)}}
    /\ opts \in AnchorOptions
    /\ ctx = NoSpanContext
    /\ now = StartTime
    /\ started = NotStarted
    /\ extracted = NotExtracted
    /\ persisted = NotPersisted
    /\ server = obj
    /\ ender = NotEnding
    /\ codec = NoCodec
    /\ adapter = NoAdapter
    /\ writer = NoWriter
    /\ event = NoEvent
    /\ config = NoBuild

\* addTraceAnnotations(ctx, obj, opts) with the span just started.
Persist ==
    /\ started.done
    /\ persisted.n < MaxPersists
    /\ obj' = [obj EXCEPT !.annotations = addTraceAnnotations(started.span, @, opts, now)]
    /\ persisted' = [done |-> TRUE, span |-> started.span, at |-> now, n |-> persisted.n + 1]
    /\ UNCHANGED <<opts, ctx, now, started, extracted, endVars, queueAndLockVars, codec, sideVars>>

\* Time passes, up to the next reading of the clock.
Tick(d) ==
    /\ d > 0
    /\ now + d \in Readings(opts)
    /\ now' = now + d
    /\ UNCHANGED <<obj, opts, ctx, started, extracted, persisted, endVars, queueAndLockVars, codec, sideVars>>

NextPersist ==
    \/ StartSpan
    \/ Persist
    \/ \E d \in 1..(DefaultTraceExpiration + MaxElapsed) : Tick(d)

PersistSpec == PersistInit /\ [][NextPersist]_vars

(***************************************************************************)
(* EndTrace on a resource another client writes to.  The caller holds the  *)
(* copy obj it read from the server; EndTrace reads the server's resource, *)
(* compares, and sends a merge patch and a status patch made from the      *)
(* caller's copy.  The other client's Update may fall between any two of   *)
(* these requests.                                                         *)
(***************************************************************************)
\* The writes of the other client.
MaxWrites == 2

\* An annotation that is not a trace annotation.
OwnerAnnotation == Entry(TRUE, AnnotationKey("app", "owner"), "team")

\* The resource's annotations after the API server applied the merge patch
\* client.MergeFrom(original) computes for modified: no patch when nothing
\* changed, annotations: null when modified has none left, else the removed
\* keys as null and the changed ones with their value.
MergePatchAnnotations(original, modified, target) ==
    LET removed == DOMAIN original \ DOMAIN modified
        changed == {k \in DOMAIN modified :
                      k \notin DOMAIN original \/ original[k] # modified[k]}
    IN
    IF removed = {} /\ changed = {} THEN target
    ELSE IF DOMAIN modified = {} THEN EmptyMap
    ELSE [k \in (DOMAIN target \ removed) \cup changed |->
            IF k \in changed THEN modified[k] ELSE target[k]]

EndInit ==
    /\ QueueInit
    /\ opts \in AnchorOptions
    /\ \E a \in {EmptyMap,
                  Carrier(emittedTraceParentAnnotationKey(opts),
                          emittedTraceStateAnnotationKey(opts),
                          TraceParent("aa", "b1"), StartTime),
                  LegacyAnnotations("aa", "d1", StartTime)},
          u \in {EmptyMap, OwnerAnnotation},
          c \in {NoConditions, Conditions(TRUE, "aa", "f1", StartTime)} :
          server = Resource(a @@ u, c)
    /\ obj = server
    /\ ctx = NoSpanContext
    /\ now = StartTime
    /\ started = NotStarted
    /\ extracted = NotExtracted
    /\ persisted = NotPersisted
    /\ ender = NotEnding
    /\ codec = NoCodec
    /\ adapter = NoAdapter
    /\ writer = NoWriter
    /\ event = NoEvent
    /\ config = NoBuild

\* Another client updates the resource under its own span: Update writes the
\* span's trace context on the server.
OtherWrites(sc) ==
    /\ ender.writes < MaxWrites
    /\ server' = [server EXCEPT !.annotations = addTraceAnnotations(sc, @, opts, now)]
    /\ ender' = [ender EXCEPT !.wrote = TraceParent(sc.TraceID, sc.SpanID),
                              !.writes = @ + 1]
    /\ UNCHANGED <<obj, opts, ctx, now, started, extracted, persisted, queueAndLockVars, codec, sideVars>>

\* EndTrace up to the comparison: the span, tc.Reader.Get (its error is only
\* recorded, the copy of obj then stands for the server's resource), and the
\* comparison of the two stored traceparents.
EndTraceCompare(fails) ==
    /\ ender.pc = "idle"
    /\ started' = startSpanFromContext(ctx, opts, obj, now, NoLinkedSpans)
    /\ LET current == IF fails THEN obj.annotations ELSE server.annotations
           currentStored == extractTraceContextFromAnnotations(current, opts).stored
           desiredStored == extractTraceContextFromAnnotations(obj.annotations, opts).stored
       IN ender' = [ender EXCEPT !.pc =
                      IF DOMAIN obj.annotations = {} THEN "done"
                      ELSE IF currentStored.TraceParent # desiredStored.TraceParent
                           THEN "done"
                           ELSE "patch"]
    /\ UNCHANGED <<obj, server, opts, ctx, now, extracted, persisted, queueAndLockVars, codec>>

EndTraceRead(fails) == EndTraceCompare(fails) /\ UNCHANGED sideVars

\* tc.Client.Patch with the merge patch that removes the trace annotations
\* from the caller's copy; obj becomes what the server answers.
EndTracePatch ==
    /\ ender.pc = "patch"
    /\ server' = [server EXCEPT !.annotations =
                     MergePatchAnnotations(obj.annotations,
                         persistTraceCarrier(obj.annotations, opts, NoTraceParent, NoTraceState),
                         @)]
    /\ obj' = server'
    /\ ender' = [ender EXCEPT !.pc = "status"]
    /\ UNCHANGED <<opts, ctx, now, started, extracted, persisted, queueAndLockVars, codec, sideVars>>

\* tc.Client.Status().Patch after the TraceID and SpanID conditions were
\* deleted from obj.
EndTraceStatusPatch ==
    /\ ender.pc = "status"
    /\ server' = [server EXCEPT !.conditions = IF obj.conditions.has THEN NoConditions ELSE @]
    /\ obj' = server'
    /\ ender' = [ender EXCEPT !.pc = "done"]
    /\ UNCHANGED <<opts, ctx, now, started, extracted, persisted, queueAndLockVars, codec, sideVars>>

NextEnd ==
    \/ \E sc \in {SpanContext("cc", "d1", FALSE), SpanContext("ee", "f1", FALSE)} :
          OtherWrites(sc)
    \/ \E fails \in BOOLEAN : EndTraceRead(fails)
    \/ EndTracePatch
    \/ EndTraceStatusPatch

EndSpec == EndInit /\ [][NextEnd]_vars

\* EndTrace with no other client at work and a Get that succeeds.
NextEndAlone ==
    \/ EndTraceRead(FALSE)
    \/ EndTracePatch
    \/ EndTraceStatusPatch

EndAloneSpec == EndInit /\ [][NextEndAlone]_vars

(***************************************************************************)
(* pkg/reconcile/reconcile.go: the reconciler that wraps an                *)
(* ObjectReconciler.  Reconcile calls StartTrace, the inner reconciler and *)
(* EndTrace; errors are "" for nil, "NotFound" for the API server's not    *)
(* found, and other names for other failures.                              *)
(***************************************************************************)
\* ctrlreconcile.Result.
Result(requeue) == [Requeue |-> requeue]

\* NewReconcilerBuilder, WithDisableEndTrace and Build.
NewReconcilerBuilder == [disableEndTrace |-> FALSE]

WithDisableEndTrace(b) == [b EXCEPT !.disableEndTrace = TRUE]

Build(b) ==
    [pc |-> "idle", disableEndTrace |-> b.disableEndTrace, req |-> NoRequest, startErr |-> "",
     reconcileCalled |-> 0, endTraceCalls |-> 0, result |-> Result(FALSE), err |-> ""]

\* ctrlclient.IgnoreNotFound that hands every error on.
IgnoreNotFoundKeepsError(err) == err

\* ctrlclient.IgnoreNotFound.
IgnoreNotFound(err) == IF err = "NotFound" THEN "" ELSE err

\* The test of Reconcile's older version: EndTrace when it is disabled.
callsEndTraceWhenDisabled(a) == a.disableEndTrace

\* Whether Reconcile calls EndTrace after the inner reconciler.
callsEndTrace(a) == ~a.disableEndTrace

\* overrideTraceContextFromRequest: the request's parent, when it has both
\* ids and they are well-formed, replaces the trace context on the object.
overrideTraceContextFromRequest(request, annotations, o) ==
    LET parent == request.Parent
        built == TraceParentFromIDs(parent.TraceID, parent.SpanID)
    IN
    IF parent.TraceID = "" \/ parent.SpanID = "" THEN annotations
    ELSE IF built.err \/ built.traceParent = NoTraceParent THEN annotations
    ELSE persistTraceCarrier(annotations, o, built.traceParent, NoTraceState)

\* The requests the controller hands to Reconcile: with and without a
\* parent, and with linked spans, empty and malformed ones among them.
ReconcileRequests ==
    {Request("default/foo", p, l) :
       p \in {EmptyRef, SpanRef("aa", "b1"), SpanRef("cc", "d1")},
       l \in {NoLinkedSpans,
              <<SpanRef("cc", "d1")>>,
              <<SpanRef("cc", "d1"), EmptyRef, SpanRef("ee", "f1")>>,
              <<SpanRef("zz", "d1"), SpanRef("aa", "")>>}}

\* The resource is on the server or not; the reconciler is built with or
\* without WithDisableEndTrace; o is the zero value of its type.
ReconcileInit ==
    /\ QueueInit
    /\ opts \in {defaultOptions, WithAnnotationPrefix(defaultOptions, "example.com/")}
    /\ \E a \in {EmptyMap,
                  Carrier(emittedTraceParentAnnotationKey(opts),
                          emittedTraceStateAnnotationKey(opts),
                          TraceParent("aa", "b1"), StartTime),
                  LegacyAnnotations("aa", "d1", StartTime)},
          u \in {EmptyMap, OwnerAnnotation},
          c \in {NoConditions, Conditions(TRUE, "aa", "f1", StartTime)} :
          server = Resource(a @@ u, c)
    /\ obj = Resource(EmptyMap, NoConditions)
    /\ ctx \in {NoSpanContext, SpanContext("ee", "b1", FALSE)}
    /\ now = StartTime
    /\ started = NotStarted
    /\ extracted = NotExtracted
    /\ persisted = NotPersisted
    /\ ender = NotEnding
    /\ codec = NoCodec
    /\ adapter \in {Build(NewReconcilerBuilder), Build(WithDisableEndTrace(NewReconcilerBuilder))}
    /\ writer = NoWriter
    /\ event = NoEvent
    /\ config = NoBuild

\* Reconcile up to the inner reconciler: StartTrace reads the resource (the
\* Get fails with getErr, "NotFound" when the resource is not there), takes
\* the request's trace context and starts the span (the scheme fails on the
\* type with gvkErr); on an error Reconcile returns.
StartTrace(req, getErr, gvkErr) ==
    /\ adapter.pc = "idle"
    /\ LET o == IF getErr # "" THEN obj
                ELSE [server EXCEPT !.annotations = overrideTraceContextFromRequest(req, @, opts)]
           err == IF getErr # "" THEN getErr ELSE gvkErr
       IN /\ obj' = o
          /\ started' = startSpanFromContext(ctx, opts, o, now, req.LinkedSpans)
          /\ ctx' = started'.span
          /\ adapter' = IF err # ""
                        THEN [adapter EXCEPT !.pc = "returned", !.req = req, !.startErr = err,
                                             !.result = Result(FALSE),
                                             !.err = IgnoreNotFound(err)]
                        ELSE [adapter EXCEPT !.pc = "started", !.req = req]
    /\ UNCHANGED <<server, ender, opts, now, extracted, persisted, queueAndLockVars, codec, writer, event, config>>

\* a.objReconciler.Reconcile(ctx, o) returns; Reconcile returns too when it
\* has no EndTrace to call.
InnerReconcile(requeue, err) ==
    /\ adapter.pc = "started"
    /\ adapter' = [adapter EXCEPT !.pc = IF callsEndTrace(adapter) THEN "end" ELSE "returned",
                                  !.reconcileCalled = @ + 1,
                                  !.result = Result(requeue),
                                  !.err = err]
    /\ UNCHANGED <<obj, server, ender, opts, ctx, now, started, extracted, persisted,
                   queueAndLockVars, codec, writer, event, config>>

\* Reconcile calls a.client.EndTrace(ctx, o).
CallEndTrace(fails) ==
    /\ adapter.pc = "end"
    /\ EndTraceCompare(fails)
    /\ adapter' = [adapter EXCEPT !.pc = "ending", !.endTraceCalls = @ + 1]
    /\ UNCHANGED <<writer, event, config>>

\* EndTrace returned, and Reconcile returns what the inner reconciler did.
ReconcileReturn ==
    /\ adapter.pc = "ending"
    /\ ender.pc = "done"
    /\ adapter' = [adapter EXCEPT !.pc = "returned"]
    /\ UNCHANGED <<obj, server, ender, opts, ctx, now, started, extracted, persisted,
                   queueAndLockVars, codec, writer, event, config>>

NextReconcile ==
    \/ \E req \in ReconcileRequests, getErr \in {"", "NotFound", "Forbidden"},
          gvkErr \in {"", "NotRegistered"} : StartTrace(req, getErr, gvkErr)
    \/ \E requeue \in BOOLEAN, err \in {"", "Failed"} : InnerReconcile(requeue, err)
    \/ \E fails \in BOOLEAN : CallEndTrace(fails)
    \/ EndTracePatch
    \/ EndTraceStatusPatch
    \/ ReconcileReturn

ReconcileSpec == ReconcileInit /\ [][NextReconcile]_vars

(***************************************************************************)
(* Update, Patch and Status().Patch of the tracing client.  The resource   *)
(* on the server is server with the content and the resource version kept  *)
(* in writer; the caller's object is obj with its own content and resource *)
(* version.  The content stands for labels, spec, data and the status      *)
(* without the TraceID and SpanID conditions.                              *)
(***************************************************************************)
Object(res, content, resourceVersion) ==
    [annotations |-> res.annotations, conditions |-> res.conditions,
     content |-> content, resourceVersion |-> resourceVersion]

\* predicates: equalExcept(a, b, keysToIgnore...).
equalExcept(a, b, keysToIgnore) ==
    /\ \A key \in DOMAIN a \ keysToIgnore : key \in DOMAIN b /\ a[key] = b[key]
    /\ \A key \in DOMAIN b \ DOMAIN a : key \in keysToIgnore

\* predicates.HasSignificantUpdate(oldObj, newObj): the predicate's Update.
HasSignificantUpdate(oldObj, newObj) ==
    LET otherAnnotationsChanged ==
            ~equalExcept(oldObj.annotations, newObj.annotations,
                         {LegacyTraceIDAnnotation, LegacySpanIDAnnotation,
                          LegacyTraceIDTimeAnnotation})
        specOrStatusChanged == oldObj.content # newObj.content
    IN otherAnnotationsChanged \/ specOrStatusChanged

\* The contents a resource has, and the resource version the server starts at.
Contents == {"v1", "v2"}

FirstResourceVersion == 1

\* The trace annotations a resource carries: none, the carrier the client
\* emits, and the legacy ones.
TraceAnnotations(o) ==
    {EmptyMap,
     Carrier(emittedTraceParentAnnotationKey(o), emittedTraceStateAnnotationKey(o),
             TraceParent("aa", "b1"), StartTime),
     Carrier(emittedTraceParentAnnotationKey(o), emittedTraceStateAnnotationKey(o),
             TraceParent("cc", "d1"), StartTime),
     LegacyAnnotations("aa", "d1", StartTime)}

\* The server's resource and the caller's object, read from the server at
\* this resource version or the one before.
WriteInit ==
    /\ QueueInit
    /\ opts \in {defaultOptions, WithAnnotationPrefix(defaultOptions, "example.com/")}
    /\ \E a \in TraceAnnotations(opts), u \in {EmptyMap, OwnerAnnotation} :
          server = Resource(a @@ u, NoConditions)
    /\ \E a \in TraceAnnotations(opts), u \in {EmptyMap, OwnerAnnotation} :
          obj = Resource(a @@ u, NoConditions)
    /\ ctx \in {NoSpanContext, SpanContext("ee", "b1", FALSE)}
    /\ now = StartTime + 1
    /\ started = NotStarted
    /\ extracted = NotExtracted
    /\ persisted = NotPersisted
    /\ ender = NotEnding
    /\ codec = NoCodec
    /\ adapter = NoAdapter
    /\ \E stored \in Contents, mine \in Contents,
          rv \in {FirstResourceVersion, FirstResourceVersion + 1} :
          writer = [pc |-> "idle", op |-> "", stored |-> stored, mine |-> mine,
                    resourceVersion |-> FirstResourceVersion + 1, objResourceVersion |-> rv,
                    before |-> Object(server, stored, FirstResourceVersion + 1),
                    passed |-> Object(obj, mine, rv),
                    base |-> Object(obj, mine, rv), ctx |-> NoSpanContext]
    /\ event = NoEvent
    /\ config = NoBuild

\* The resource the server holds and the caller's object.
Stored == Object(server, writer.stored, writer.resourceVersion)

Mine == Object(obj, writer.mine, writer.objResourceVersion)

writeFrame == <<ender, opts, ctx, now, extracted, persisted, queueAndLockVars, codec, adapter, event, config>>

\* The caller calls Update, Patch or Status().Patch with the object; a patch
\* is client.MergeFrom of a copy of the object or of the server's resource.
Called(op, base) ==
    /\ writer.pc = "idle"
    /\ writer' = [writer EXCEPT !.pc = "prepare", !.op = op, !.base = base, !.ctx = ctx]
    /\ UNCHANGED <<obj, server, started, writeFrame>>

Update == Called("Update", Mine)

Patch(base) == Called("Patch", base)

StatusPatch(base) == Called("StatusPatch", base)

\* The prepare span, the Get of the existing object and the test of
\* HasSignificantUpdate: the call returns nil when it is false.
PrepareWrite ==
    /\ writer.pc = "prepare"
    /\ started' = startSpanFromContext(writer.ctx, opts, obj, now, NoLinkedSpans)
    /\ writer' = [writer EXCEPT !.pc = IF HasSignificantUpdate(Stored, Mine)
                                       THEN "span" ELSE "done",
                                !.ctx = started'.span]
    /\ UNCHANGED <<obj, server, writeFrame>>

\* The producer span of the write.
StartWriteSpan ==
    /\ writer.pc = "span"
    /\ started' = startSpanFromContext(writer.ctx, opts, obj, now, NoLinkedSpans)
    /\ writer' = [writer EXCEPT !.pc = "annotate", !.ctx = started'.span]
    /\ UNCHANGED <<obj, server, writeFrame>>

\* addTraceAnnotations, or setConditionMessage for the status; Update with
\* an object of another resource version than the existing one goes on as
\* tc.Patch(ctx, obj, client.MergeFrom(existingObj)).
AnnotateWrite ==
    /\ writer.pc = "annotate"
    /\ obj' = IF writer.op = "StatusPatch"
              THEN [obj EXCEPT !.conditions = Conditions(TRUE, writer.ctx.TraceID,
                                                         writer.ctx.SpanID, now)]
              ELSE [obj EXCEPT !.annotations = addTraceAnnotations(writer.ctx, @, opts, now)]
    /\ writer' = IF writer.op = "Update" /\ writer.resourceVersion # writer.objResourceVersion
                 THEN [writer EXCEPT !.pc = "prepare", !.op = "Patch", !.base = Stored]
                 ELSE [writer EXCEPT !.pc = "send"]
    /\ UNCHANGED <<server, started, writeFrame>>

\* tc.Client.Update, tc.Client.Patch or ts.StatusWriter.Patch: the server
\* stores the object under the next resource version and answers with it.
SendWrite ==
    /\ writer.pc = "send"
    /\ server' =
          IF writer.op = "Update" THEN [server EXCEPT !.annotations = obj.annotations]
          ELSE IF writer.op = "Patch"
          THEN [server EXCEPT !.annotations =
                   MergePatchAnnotations(writer.base.annotations, obj.annotations, @)]
          ELSE [server EXCEPT !.conditions = obj.conditions]
    /\ obj' = server'
    /\ writer' = [writer EXCEPT
                     !.pc = "done",
                     !.stored = IF writer.op = "Update" \/ writer.base.content # writer.mine
                                THEN writer.mine ELSE @,
                     !.mine = IF writer.op = "Update" \/ writer.base.content # writer.mine
                              THEN @ ELSE writer.stored,
                     !.resourceVersion = @ + 1,
                     !.objResourceVersion = writer.resourceVersion + 1]
    /\ UNCHANGED <<started, writeFrame>>

NextWrite ==
    \/ Update
    \/ \E base \in {Mine, Stored} : Patch(base)
    \/ \E base \in {Mine, Stored} : StatusPatch(base)
    \/ PrepareWrite
    \/ StartWriteSpan
    \/ AnnotateWrite
    \/ SendWrite

WriteSpec == WriteInit /\ [][NextWrite]_vars

(***************************************************************************)
(* pkg/predicates: the predicate of update events.  An object is its       *)
(* metadata, spec, status and data; the status holds observedGeneration,   *)
(* the TraceID and SpanID conditions and the other status content.         *)
(***************************************************************************)
\* The object of the old side of the events.
OldObject ==
    [labels |-> "l1", finalizers |-> "f1", ownerReferences |-> "o1",
     annotations |-> Carrier(DefaultTraceParentAnnotation, DefaultTraceStateAnnotation,
                             TraceParent("aa", "b1"), StartTime)
                     @@ LegacyAnnotations("aa", "b1", StartTime)
                     @@ OwnerAnnotation,
     spec |-> "s1", data |-> "d1",
     status |-> [observedGeneration |-> 1, traceConditions |-> "aa", other |-> "st1"],
     generation |-> 1, resourceVersion |-> "rv1"]

\* What an update changes in an object.
Changes ==
    {"traceparent", "tracestate", "legacy", "resourceVersion", "generation",
     "observedGeneration", "traceConditions",
     "labels", "finalizers", "ownerReferences", "annotation", "spec", "status", "data"}

\* The changes of one update event.
MaxChanges == 3

\* The object after an update that made the changes.
Changed(o, changes) ==
    [labels |-> IF "labels" \in changes THEN "l2" ELSE o.labels,
     finalizers |-> IF "finalizers" \in changes THEN "f2" ELSE o.finalizers,
     ownerReferences |-> IF "ownerReferences" \in changes THEN "o2" ELSE o.ownerReferences,
     annotations |->
         (IF "traceparent" \in changes
          THEN DefaultTraceParentAnnotation :> TraceParent("cc", "d1") ELSE EmptyMap)
         @@ (IF "tracestate" \in changes
             THEN DefaultTraceStateAnnotation :> TraceState(TraceStateTimestampKey, StartTime + 1)
             ELSE EmptyMap)
         @@ (IF "legacy" \in changes THEN LegacyAnnotations("cc", "d1", StartTime + 1)
             ELSE EmptyMap)
         @@ (IF "annotation" \in changes THEN AnnotationKey("app", "owner") :> "other"
             ELSE EmptyMap)
         @@ o.annotations,
     spec |-> IF "spec" \in changes THEN "s2" ELSE o.spec,
     data |-> IF "data" \in changes THEN "d2" ELSE o.data,
     status |-> [observedGeneration |-> IF "observedGeneration" \in changes THEN 2
                                        ELSE o.status.observedGeneration,
                 traceConditions |-> IF "traceConditions" \in changes THEN "cc"
                                     ELSE o.status.traceConditions,
                 other |-> IF "status" \in changes THEN "st2" ELSE o.status.other],
     generation |-> IF "generation" \in changes THEN 2 ELSE o.generation,
     resourceVersion |-> IF "resourceVersion" \in changes THEN "rv2" ELSE o.resourceVersion]

\* getFieldExcludingObservedGeneration(obj, "status"): without
\* observedGeneration and the TraceID and SpanID conditions.
getFieldExcludingObservedGeneration(o) == o.status.other

\* hasSpecOrStatusOrDataChanged(oldObj, newObj).
hasSpecOrStatusOrDataChanged(oldObj, newObj) ==
    LET specChanged == oldObj.spec # newObj.spec
        statusChanged == getFieldExcludingObservedGeneration(oldObj)
                             # getFieldExcludingObservedGeneration(newObj)
        dataChanged == oldObj.data # newObj.data
    IN specChanged \/ statusChanged \/ dataChanged

\* TypedIgnoreTraceAnnotationUpdatePredicate.Update(e).
PredicateUpdate(e) ==
    LET labelsChanged == e.ObjectOld.labels # e.ObjectNew.labels
        finalizersChanged == e.ObjectOld.finalizers # e.ObjectNew.finalizers
        ownerReferenceChanged == e.ObjectOld.ownerReferences # e.ObjectNew.ownerReferences
        otherAnnotationsChanged ==
            ~equalExcept(e.ObjectOld.annotations, e.ObjectNew.annotations,
                         {LegacyTraceIDAnnotation, LegacySpanIDAnnotation,
                          LegacyTraceIDTimeAnnotation})
        specOrStatusChanged == hasSpecOrStatusOrDataChanged(e.ObjectOld, e.ObjectNew)
    IN labelsChanged \/ finalizersChanged \/ ownerReferenceChanged
          \/ otherAnnotationsChanged \/ specOrStatusChanged

\* An update event of an object: a few changes were made to it.
PredicateInit ==
    /\ QueueInit
    /\ obj = Resource(EmptyMap, NoConditions)
    /\ opts = defaultOptions
    /\ ctx = NoSpanContext
    /\ now = StartTime
    /\ started = NotStarted
    /\ extracted = NotExtracted
    /\ persisted = NotPersisted
    /\ server = obj
    /\ ender = NotEnding
    /\ codec = NoCodec
    /\ adapter = NoAdapter
    /\ writer = NoWriter
    /\ config = NoBuild
    /\ \E changes \in {c \in SUBSET Changes : Cardinality(c) <= MaxChanges} :
          event = [pc |-> "event", changes |-> changes, ObjectOld |-> OldObject,
                   ObjectNew |-> Changed(OldObject, changes), result |-> FALSE]

\* The controller asks the predicate about the event.
PredicateAsked ==
    /\ event.pc = "event"
    /\ event' = [event EXCEPT !.pc = "done", !.result = PredicateUpdate(event)]
    /\ UNCHANGED <<obj, opts, ctx, now, started, extracted, persisted, endVars,
                   queueAndLockVars, codec, adapter, writer, config>>

NextPredicate == PredicateAsked

PredicateSpec == PredicateInit /\ [][NextPredicate]_vars

(***************************************************************************)
(* pkg/client/options.go, newOptions: the options start as defaultOptions  *)
(* and the option functions handed in are applied one after the other.     *)
(***************************************************************************)
MaxOptions == 3

\* The option functions handed to newOptions: nil, and every override with
\* arguments it accepts and arguments it does not.
OptionFns ==
    {NilOption}
    \cup {Option("WithAnnotationPrefix", <<p>>) : p \in {"", "example.com/", "/"}}
    \cup {Option("WithTraceExpiration", <<d>>) : d \in {0, 0 - ShortExpiration, ShortExpiration}}
    \cup {Option("WithTraceStateTimestampKey", <<k>>) : k \in {"", "ts"}}
    \cup {Option("WithIncomingTraceParentAnnotation", <<k>>) : k \in {NoKey, ExternalTraceParentKey}}
    \cup {Option("WithIncomingTraceStateAnnotation", <<k>>) : k \in {NoKey, ExternalTraceStateKey}}
    \cup {Option("WithIncomingTraceRelationship", <<r>>) :
              r \in {"", "child", TraceParentRelationshipLink, TraceParentRelationshipParent}}
    \cup {Option("WithEmittedAnnotationSuffixes", <<p, t>>) :
              p \in {"", "/tp", " "}, t \in {"", "ts2"}}

OptionsInit ==
    /\ QueueInit
    /\ obj = Resource(EmptyMap, NoConditions)
    /\ opts = defaultOptions
    /\ ctx = NoSpanContext
    /\ now = StartTime
    /\ started = NotStarted
    /\ extracted = NotExtracted
    /\ persisted = NotPersisted
    /\ server = obj
    /\ ender = NotEnding
    /\ codec = NoCodec
    /\ adapter = NoAdapter
    /\ writer = NoWriter
    /\ event = NoEvent
    /\ config = [pc |-> "building", applied |-> 0, last |-> NilOption,
                 before |-> defaultOptions]

\* One turn of the loop of newOptions.
newOptions ==
    /\ config.pc = "building"
    /\ config.applied < MaxOptions
    /\ \E option \in OptionFns :
          /\ opts' = applyOption(opts, option)
          /\ config' = [config EXCEPT !.applied = @ + 1, !.last = option,
                                      !.before = opts]
    /\ UNCHANGED <<obj, ctx, now, started, extracted, persisted, endVars,
                   queueAndLockVars, codec, adapter, writer, event>>

NextOptions == newOptions

OptionsSpec == OptionsInit /\ [][NextOptions]_vars

(***************************************************************************)
(* The codec: identifiers are handed to TraceParentFromIDs and the string  *)
(* it returns to SpanContextFromTraceData; a peer's traceparent, written   *)
(* without TraceParentFromIDs, is handed to SpanContextFromTraceData too.  *)
(***************************************************************************)
Repeat(c, n) == [i \in 1..n |-> c]

\* Identifiers of the length n: well-formed ones, all zero, uppercase, not
\* hexadecimal, one digit short, one digit long, and empty.
IDInputs(n) ==
    { Repeat("a", n),
      <<"0", "a", "f", "7">> \o Repeat("6", n - 8) \o <<"3", "1", "9", "c">>,
      Repeat("0", n - 1) \o <<"1">>,
      Repeat("0", n),
      Repeat("A", n),
      Repeat("g", n),
      Repeat("b", n - 1),
      Repeat("b", n + 1),
      <<>> }

NoBuilt == [traceParent |-> <<>>, err |-> FALSE]

NoParsed == [TraceID |-> <<>>, SpanID |-> <<>>, err |-> FALSE]

\* The tracestates of the span contexts encoded: none, the timestamp of an
\* earlier write, and that with a vendor's member before or after it.
StateInputs ==
    LET old == Member(TraceStateTimestampKey, FormatTime(StartTime - 1))
        vendor == Member("vendor", "v1")
    IN {<<>>, <<old>>, <<vendor, old>>, <<old, vendor>>, <<vendor>>}

CodecInit ==
    /\ QueueInit
    /\ obj = Resource(EmptyMap, NoConditions)
    /\ opts = defaultOptions
    /\ ctx = NoSpanContext
    /\ now = StartTime
    /\ started = NotStarted
    /\ extracted = NotExtracted
    /\ persisted = NotPersisted
    /\ server = obj
    /\ ender = NotEnding
    /\ \E t \in IDInputs(TraceIDHexLen), sp \in IDInputs(SpanIDHexLen) :
          codec = [pc |-> "input", traceID |-> t, spanID |-> sp,
                   built |-> NoBuilt, parsed |-> NoParsed,
                   state |-> <<>>, encoded |-> 0, text |-> <<>>, again |-> <<>>]
    /\ adapter = NoAdapter
    /\ writer = NoWriter
    /\ event = NoEvent
    /\ config = NoBuild

codecFrame == <<obj, opts, ctx, now, started, extracted, persisted, endVars, queueAndLockVars, sideVars>>

\* TraceParentFromIDs(traceID, spanID).
BuildTraceParent ==
    /\ codec.pc = "input"
    /\ codec' = [codec EXCEPT !.pc = "built",
                              !.built = TraceParentText(codec.traceID, codec.spanID)]
    /\ UNCHANGED codecFrame

\* SpanContextFromTraceData of the traceparent built.
ParseBuilt ==
    /\ codec.pc = "built"
    /\ codec' = [codec EXCEPT !.pc = "parsed",
                              !.parsed = SpanContextText(codec.built.traceParent)]
    /\ UNCHANGED codecFrame

\* SpanContextFromTraceData of the traceparent a peer wrote with the
\* identifiers as they are.
ParsePeer ==
    /\ codec.pc = "input"
    /\ codec' = [codec EXCEPT !.pc = "peer",
                              !.parsed = SpanContextText(
                                  FormatTraceParent(codec.traceID, codec.spanID))]
    /\ UNCHANGED codecFrame

\* BuildTraceStateString(sc, timestampKey, now) for the span context just
\* parsed, carrying one of the tracestates.
BuildState(ts) ==
    /\ codec.pc = "parsed"
    /\ ~codec.parsed.err
    /\ codec.encoded = 0
    /\ codec' = [codec EXCEPT !.state = ts, !.encoded = 1,
                              !.text = BuildTraceStateText(ts, traceStateTimestampKey(opts), now)]
    /\ UNCHANGED codecFrame

\* BuildTraceStateString again, same timestamp, for the span context that
\* carries the tracestate written.
BuildStateAgain ==
    /\ codec.encoded = 1
    /\ codec' = [codec EXCEPT !.encoded = 2,
                              !.again = BuildTraceStateText(ParseTraceState(codec.text),
                                            traceStateTimestampKey(opts), now)]
    /\ UNCHANGED codecFrame

NextCodec ==
    \/ BuildTraceParent
    \/ ParseBuilt
    \/ ParsePeer
    \/ \E ts \in StateInputs : BuildState(ts)
    \/ BuildStateAgain

CodecSpec == CodecInit /\ [][NextCodec]_vars

(***************************************************************************)
(* The properties.                                                         *)
(***************************************************************************)
Followed(k, sc) == OpNames(hist[k]) = sc

\* C1: at most one unit per key is checked out at a time: no two workers
\* hold, between Get's return and Done, a unit of the same key.
AtMostOneCheckedOut ==
    \A w1, w2 \in Workers :
        (w1 # w2 /\ worker[w1].pc = "work" /\ worker[w2].pc = "work")
            => HeldKey(w1) # HeldKey(w2)

\* A key is checked out, was added again meanwhile (it is dirty), and another
\* worker is idle in Get: the key is withheld from it.
AtMostOneCheckedOutWitness ==
    \E w1, w2 \in Workers :
        /\ worker[w1].pc = "work"
        /\ HeldKey(w1) \in queue.dirty
        /\ worker[w2].pc = "idle"
        /\ queue.items = <<>>

\* C2: an Add or AddRateLimited for a key made while the key is checked out
\* leads to a later delivery of the key by Get, unless the queue is shut down.
AddWhileProcessingRedelivers ==
    \A k \in Keys :
        (pending[k] \cap {"Add", "AddRateLimited"} # {})
            ~> (pending[k] = {} \/ queue.shuttingDown)

\* Add, Get, Add while checked out, Done, and Get has delivered the key again.
AddWhileProcessingRedeliversWitness ==
    \E k \in Keys :
        Followed(k, <<"Add", "GetKey", "GetRead", "Add", "Done", "GetKey", "GetRead">>)

\* C3: every non-empty parent passed to Add for a key while the key was
\* checked out is the parent or a linked span of the unit the next Get
\* returns for the key (unless that unit's array is full).
CausesReachNextDelivery ==
    \A w \in Workers :
        worker[w].pc = "work"
            => \/ seen[w].out \subseteq Refs(worker[w].req)
               \/ LinkedSpanCount(worker[w].req) = MaxLinkedSpans

MergePrefersLatestParent ==
    \A k \in Keys :
        Followed(k, <<"Add", "Add", "GetKey", "GetRead">>) =>
            LET req1 == hist[k][1].req
                req2 == hist[k][2].req
                got == hist[k][4].req
            IN  req1.Parent # req2.Parent
                    => /\ got.Parent = req2.Parent
                       /\ LinkedSpanCount(got) = 1
                       /\ got.LinkedSpans[1] = req1.Parent

\* C6: a unit returned by Get carries only span references handed in by
\* Add, AddAfter or AddRateLimited since the previous delivery of its key.
DeliversOnlyFreshCauses ==
    \A w \in Workers :
        worker[w].pc = "work" => Refs(worker[w].req) \subseteq seen[w].since

\* Every unit in the queue's maps or in a worker's hands is within the array.
CapHolds ==
    /\ \A k \in DOMAIN m : LinkedSpanCount(m[k]) <= MaxLinkedSpans
    /\ \A k \in DOMAIN softDeleted : LinkedSpanCount(softDeleted[k]) <= MaxLinkedSpans
    /\ \A w \in Workers : LinkedSpanCount(worker[w].req) <= MaxLinkedSpans

\* C7: no unit in the queue's maps or in a worker's hands has more than 10
\* linked spans, and an entry with 10 keeps them as they are whatever is
\* merged onto it: the eleventh distinct parent is dropped.
LinkedSpansCapped ==
    /\ []CapHolds
    /\ [][\A k \in DOMAIN m :
            (k \in DOMAIN m' /\ LinkedSpanCount(m[k]) = MaxLinkedSpans)
                => m'[k].LinkedSpans = m[k].LinkedSpans]_vars

\* An eleventh distinct parent was merged onto a full entry and dropped, and
\* a worker has got the unit with its 10 linked spans.
LinkedSpansCappedWitness ==
    \E w \in Workers :
        /\ worker[w].pc = "work"
        /\ HeldKey(w) \in dropped
        /\ LinkedSpanCount(worker[w].req) = MaxLinkedSpans
        /\ Cardinality(Refs(worker[w].req)) = MaxLinkedSpans + 1

\* C8: AddAfter on a key without entry stores a unit with an empty parent
\* and no linked spans, whatever the passed unit carried.
AddAfterStartsFreshChain ==
    [][\A req \in CallerRequests, d \in {0, 1} :
            (req.NamespacedName \notin DOMAIN m /\ AddAfter(req, d))
                => /\ m'[req.NamespacedName].Parent = EmptyRef
                   /\ m'[req.NamespacedName].LinkedSpans = <<>>]_vars

\* C9: an AddAfter for a key made while the key is checked out leads to a
\* later delivery of the key by Get, unless the queue is shut down.
AddAfterWhileProcessingRedelivers ==
    \A k \in Keys :
        ("AddAfter" \in pending[k]) ~> (pending[k] = {} \/ queue.shuttingDown)

ShutdownStopsWorkers ==
    queue.shuttingDown ~> (\A w \in Workers : worker[w].pc = "exit")

\* All workers were told to stop by Get after calls were made and a draining
\* shutdown has returned.
ShutdownStopsWorkersWitness ==
    /\ \A w \in Workers : worker[w].pc = "exit"
    /\ drainer = "done"
    /\ calls > 0
    /\ queue.drain

\* C12: a goroutine that holds tq.mu can always take its next step, and
\* every call of Add, AddAfter, AddRateLimited, Forget and Done that has
\* begun completes, whatever Get and ShutDownWithDrain are waiting for.
CallsNeverBlock ==
    /\ [](mu # "free" => ENABLED HolderStep)
    /\ \A p \in Producers : (caller[p].pc # "idle") ~> (caller[p].pc = "idle")
    /\ \A w \in Workers : (worker[w].pc = "finishing") ~> (worker[w].pc = "idle")

\* A producer is inside its call, holding tq.mu, while ShutDownWithDrain
\* waits for a key in processing and a worker waits in Get on an empty
\* queue.
CallsNeverBlockWitness ==
    /\ \E p \in Producers : caller[p].pc = "locked"
    /\ drainer = "draining" /\ queue.drain /\ queue.processing # {}
    /\ \E w \in Workers : worker[w].pc = "idle" /\ queue.items = <<>>

\* C13: when the caller's context holds a valid span context, the new span
\* is its child, and nothing persisted on the resource becomes its parent
\* or a link.
LiveContextWins ==
    (started.done /\ IsValid(ctx)) =>
        /\ started.parent = ctx
        /\ started.span.TraceID = ctx.TraceID
        /\ started.links = <<>>

\* A span was started under a live span for a resource whose annotations
\* hold an unexpired parent context of another trace.
LiveContextWinsWitness ==
    /\ started.done
    /\ IsValid(ctx)
    /\ IsValid(storedAnchor(NoSpanContext, opts, obj, now).ctx)
    /\ storedAnchor(NoSpanContext, opts, obj, now).ctx.TraceID # ctx.TraceID
    /\ obj.conditions.has

\* The stored trace context read from the resource is a well-formed one
\* that has not expired.
StoredUsable ==
    /\ extracted.done
    /\ extracted.ok
    /\ ~traceContextExpired(extracted.stored.Timestamp, opts, now)
    /\ ~SpanContextFromTraceData(extracted.stored.TraceParent, extracted.stored.TraceState).err

StoredSpanContext ==
    SpanContextFromTraceData(extracted.stored.TraceParent, extracted.stored.TraceState).spanContext

\* C14: without a live span, an unexpired stored context with relationship
\* Parent becomes the valid remote span context of the call and gives no
\* link; with relationship Link the call has no span context and there is
\* exactly one link, to the stored context.
StoredRelationshipApplied ==
    (started.done /\ ~IsValid(ctx) /\ StoredUsable) =>
        IF extracted.stored.Relationship = TraceParentRelationshipParent
        THEN /\ started.parent = StoredSpanContext
             /\ IsValid(started.parent) /\ started.parent.Remote
             /\ started.links = <<>>
        ELSE /\ started.parent = NoSpanContext
             /\ started.links = <<StoredSpanContext>>

\* A span was started for a resource whose stored context is a link, the
\* resource also having conditions.
StoredRelationshipAppliedWitness ==
    /\ started.done /\ ~IsValid(ctx) /\ StoredUsable
    /\ extracted.stored.Relationship = TraceParentRelationshipLink
    /\ started.links # <<>>
    /\ obj.conditions.has

ExpirationBoundary ==
    /\ (extracted.done /\ extracted.ok) =>
         /\ extracted.stored.Timestamp = now - traceExpiration(opts)
              => ~traceContextExpired(extracted.stored.Timestamp, opts, now)
         /\ extracted.stored.Timestamp = now - traceExpiration(opts) - 1
              => traceContextExpired(extracted.stored.Timestamp, opts, now)
    /\ (started.done /\ obj.conditions.has) =>
         /\ obj.conditions.time = started.at - TraceExpirationTime * Minute
              => ~conditionTraceExpired(obj.conditions.time, started.at)
         /\ obj.conditions.time = started.at - TraceExpirationTime * Minute - 1
              => conditionTraceExpired(obj.conditions.time, started.at)

\* A stored context written exactly the short expiration ago was read, and a
\* span was started for the resource, whose conditions are one tick older
\* than twenty minutes.
ExpirationBoundaryWitness ==
    /\ extracted.done /\ extracted.ok
    /\ opts.TraceExpiration = ShortExpiration
    /\ extracted.stored.Timestamp = now - ShortExpiration
    /\ started.done /\ obj.conditions.has
    /\ obj.conditions.time = started.at - TraceExpirationTime * Minute - 1

\* The candidates of the options whose key is set, in the order tried.
SetCandidates == SelectSeq(candidates(opts), LAMBDA c : c.parentKey # NoKey)

\* The candidates whose key holds a traceparent on the resource.
HeldCandidates ==
    SelectSeq(SetCandidates, LAMBDA c : ParentValue(obj.annotations, c.parentKey) # NoTraceParent)

\* The traceparent made of the legacy trace-id and span-id annotations.
LegacyTraceParent ==
    TraceParentFromIDs(LegacyValue(obj.annotations, legacyTraceIDAnnotationKey(opts)),
                       LegacyValue(obj.annotations, legacySpanIDAnnotationKey(opts)))

\* The stored context read is the one made of the legacy annotations.
FromLegacy ==
    /\ extracted.done /\ extracted.ok
    /\ ~LegacyTraceParent.err
    /\ extracted.stored.TraceParent = LegacyTraceParent.traceParent
    /\ extracted.stored.TraceState = NoTraceState

\* C17: the extraction returns the traceparent and tracestate under the
\* first of the incoming, emitted and default keys that holds a traceparent,
\* with that candidate's relationship: the configured one for the incoming
\* key, Parent for the emitted and the default key.
FirstCandidateWins ==
    (extracted.done /\ HeldCandidates # <<>>) =>
        LET c == Head(HeldCandidates) IN
        /\ extracted.ok
        /\ extracted.stored.TraceParent = ParentValue(obj.annotations, c.parentKey)
        /\ extracted.stored.TraceState = StateValue(obj.annotations, c.stateKey)
        /\ extracted.stored.Relationship = c.relationship

\* C18: when one of the incoming, emitted and default keys holds a
\* traceparent, the context returned is that of a carrier key and not the
\* one made of the legacy trace-id and span-id annotations.
LegacyOnlyWithoutCarrier ==
    (extracted.done /\ HeldCandidates # <<>>) =>
        /\ extracted.ok
        /\ ~FromLegacy
        /\ \E i \in 1..Len(HeldCandidates) :
              extracted.stored.TraceParent = ParentValue(obj.annotations, HeldCandidates[i].parentKey)

\* C19: a context made of the legacy trace-id and span-id annotations has
\* relationship Parent under every configuration of the incoming key and
\* relationship.
LegacyIsParent ==
    FromLegacy => extracted.stored.Relationship = TraceParentRelationshipParent

\* C20: a trace context another client wrote to the resource after the
\* caller read it stays on the server whatever EndTrace does: the server's
\* traceparent is the one the other client wrote last.
EndTraceKeepsOtherContext ==
    ender.wrote # NoTraceParent =>
        ParentValue(server.annotations, emittedTraceParentAnnotationKey(opts)) = ender.wrote

\* The linked spans of a unit are pairwise distinct and none is empty.
CleanLinkedSpans(req) ==
    /\ \A i \in 1..Len(req.LinkedSpans) : req.LinkedSpans[i] # EmptyRef
    /\ \A i, j \in 1..Len(req.LinkedSpans) :
          req.LinkedSpans[i] = req.LinkedSpans[j] => i = j

\* C21: the linked spans of every unit the queue stores or has returned are
\* pairwise distinct and none is the empty reference; an Add or
\* AddRateLimited whose parent is empty or already among the linked spans of
\* the stored unit leaves the stored unit as it is.
LinkedSpansDistinct ==
    /\ [](/\ \A k \in DOMAIN m : CleanLinkedSpans(m[k])
          /\ \A k \in DOMAIN softDeleted : CleanLinkedSpans(softDeleted[k])
          /\ \A w \in Workers : CleanLinkedSpans(worker[w].req))
    /\ [][\A req \in MergeRequests :
            ( /\ Add(req) \/ AddRateLimited(req)
              /\ req.NamespacedName \in DOMAIN m
              /\ \/ req.Parent = EmptyRef
                 \/ Contains(m[req.NamespacedName].LinkedSpans, req.Parent) )
            => m' = m]_vars

\* Four calls were merged into the entry of the first: the second parent was
\* linked, the request without parent and the second parent handed in again
\* left it alone.
LinkedSpansDistinctWitness ==
    /\ calls = 4
    /\ "default/foo" \in DOMAIN m
    /\ m["default/foo"] = Request("default/foo", SpanRef("t1", "s1"), <<SpanRef("t1", "s2")>>)

\* The keys Add was called with.
AddedKeys == {k \in Keys : hist[k] # <<>>}

\* C22: after Add calls on a new queue and before any Get, Len() is the
\* number of distinct keys added and each of them is queued once; Get then
\* returns each of these keys, and none of them a second time.
AddsQueueEachKeyOnce ==
    /\ [](NoGetYet =>
            /\ QueueLen = Cardinality(AddedKeys)
            /\ DOMAIN m = AddedKeys
            /\ Len(queue.items) = Cardinality(AddedKeys)
            /\ {queue.items[i] : i \in 1..Len(queue.items)} = AddedKeys)
    /\ [](queue.items = <<>> => AddedKeys \subseteq queue.processing \cup DOMAIN softDeleted)
    /\ [][\A w \in Workers :
            GetKey(w) => Head(queue.items) \notin queue.processing \cup DOMAIN softDeleted]_vars

\* Three Adds on two keys, and the workers have got both keys and are done.
AddsQueueEachKeyOnceWitness ==
    /\ calls = 3
    /\ DOMAIN softDeleted = Keys
    /\ queue.items = <<>>
    /\ \A w \in Workers : worker[w].pc = "idle"

\* tq.m after Add(req): the request inserted, or its parent merged into the
\* entry of its key.
StoredAfterAdd(req) ==
    LET k == req.NamespacedName IN
    IF k \in DOMAIN m THEN MapPut(m, k, MergeParent(m[k], req)) ELSE MapPut(m, k, req)

\* C23: AddRateLimited(req) leaves tq.m and tq.softDeleted as Add(req) leaves
\* them: the request inserted when its key has no entry, else its parent
\* merged into the entry as a linked span.
AddRateLimitedMergesAsAdd ==
    [][\A req \in MergeRequests :
         (Add(req) \/ AddRateLimited(req)) =>
             /\ m' = StoredAfterAdd(req)
             /\ softDeleted' = softDeleted]_vars

\* Of two calls before any Get the second was an AddRateLimited that merged
\* its parent into the entry: the key waits for its delay and is not queued.
AddRateLimitedMergesAsAddWitness ==
    \E k \in Keys :
        /\ calls = 2
        /\ NoGetYet
        /\ queue.items = <<>>
        /\ k \in queue.waiting
        /\ k \in DOMAIN m
        /\ m[k].LinkedSpans = <<MergeRef(2)>>

\* An identifier trace.TraceIDFromHex or SpanIDFromHex accepts: n lowercase
\* hexadecimal digits, not all zero.
ValidID(h, n) ==
    /\ Len(h) = n
    /\ IsLowerHex(h)
    /\ \E i \in 1..Len(h) : h[i] # "0"

\* C24: for a valid trace id and a valid span id, the traceparent built of
\* them parses to a context with that trace id and that span id; an
\* identifier of another length than 32 and 16 never yields a context,
\* neither through TraceParentFromIDs nor in a traceparent a peer wrote.
TraceParentRoundTrip ==
    /\ (/\ codec.pc = "parsed"
        /\ ValidID(codec.traceID, TraceIDHexLen)
        /\ ValidID(codec.spanID, SpanIDHexLen)) =>
              /\ ~codec.built.err
              /\ ~codec.parsed.err
              /\ codec.parsed.TraceID = codec.traceID
              /\ codec.parsed.SpanID = codec.spanID
    /\ (/\ codec.pc \in {"parsed", "peer"}
        /\ Len(codec.traceID) # TraceIDHexLen \/ Len(codec.spanID) # SpanIDHexLen)
         => codec.parsed.err

\* A traceparent built of identifiers with different digits was parsed.
TraceParentRoundTripWitness ==
    /\ codec.pc = "parsed"
    /\ ~codec.parsed.err
    /\ codec.traceID[1] # codec.traceID[2]
    /\ codec.traceID # codec.spanID \o codec.spanID

\* Hexadecimal digits of either case, n of them.
HexOfLength(h, n) ==
    /\ Len(h) = n
    /\ Chars(h) \subseteq Chars(HexDigits) \cup {"A", "B", "C", "D", "E", "F"}

\* C25 (as amended): TraceParentFromIDs returns an error exactly when one of
\* the identifiers is empty, is not made of 32 (trace id) or 16 (span id)
\* lowercase hexadecimal digits, or is all zero; otherwise it returns
\* 00-<traceID>-<spanID>-01.
TraceParentErrorsOnInvalidID ==
    codec.pc = "built" =>
        /\ codec.built.err <=>
              ~(ValidID(codec.traceID, TraceIDHexLen) /\ ValidID(codec.spanID, SpanIDHexLen))
        /\ ~codec.built.err =>
              codec.built.traceParent =
                  <<"0", "0", "-">> \o codec.traceID \o <<"-">> \o codec.spanID \o <<"-", "0", "1">>

\* TraceParentFromIDs returned an error for an all-zero trace id of 32
\* digits and a well-formed span id.
TraceParentErrorsOnInvalidIDWitness ==
    /\ codec.pc = "built"
    /\ codec.built.err
    /\ codec.traceID = Repeat("0", TraceIDHexLen)
    /\ ValidID(codec.spanID, SpanIDHexLen)

\* C25 as first stated: an error exactly when an identifier is empty or is
\* not hexadecimal of the required length.
TraceParentErrorsOnlyOnLengthOrHex ==
    codec.pc = "built" =>
        /\ codec.built.err <=>
              ~(HexOfLength(codec.traceID, TraceIDHexLen) /\ HexOfLength(codec.spanID, SpanIDHexLen))
        /\ ~codec.built.err =>
              codec.built.traceParent =
                  <<"0", "0", "-">> \o codec.traceID \o <<"-">> \o codec.spanID \o <<"-", "0", "1">>

\* The members of the timestamp key in a tracestate string.
TimestampEntries(text) ==
    {i \in 1..Len(text) :
       /\ text[i] = TraceStateTimestampKey
       /\ i + 1 <= Len(text) /\ text[i + 1] = "="
       /\ i = 1 \/ text[i - 1] = ","}

\* C26: the state string built for a context has exactly one entry for the
\* timestamp key, with the new timestamp, whether or not the context's
\* state held that key before, and the other members stay; built again
\* with the same timestamp it is the same string.
StateStringHasOneTimestamp ==
    /\ codec.pc = "parsed" /\ codec.encoded >= 1 =>
         /\ Cardinality(TimestampEntries(codec.text)) = 1
         /\ \A i \in TimestampEntries(codec.text) : codec.text[i + 2] = FormatTime(now)
         /\ \A i \in 1..Len(codec.state) :
               codec.state[i].Key # TraceStateTimestampKey
                   => \E j \in 1..Len(codec.text) : codec.text[j] = codec.state[i].Key
    /\ codec.pc = "parsed" /\ codec.encoded = 2 => codec.again = codec.text

\* The string was built twice for a context whose state held an older
\* timestamp after a vendor's member.
StateStringHasOneTimestampWitness ==
    /\ codec.pc = "parsed"
    /\ codec.encoded = 2
    /\ Len(codec.state) = 2
    /\ codec.state[2].Key = TraceStateTimestampKey
    /\ codec.state[2].Value # FormatTime(now)

\* C27: when StartTrace fails, Reconcile returns without a call of the inner
\* reconciler: an empty result and no error if the resource is not found,
\* an empty result and the error otherwise.
StartTraceFailureSkipsReconciler ==
    adapter.pc = "returned" /\ adapter.startErr # "" =>
        /\ adapter.reconcileCalled = 0
        /\ adapter.result = Result(FALSE)
        /\ adapter.err = (IF adapter.startErr = "NotFound" THEN "" ELSE adapter.startErr)

\* Reconcile returned for a resource that is not on the server.
StartTraceFailureSkipsReconcilerWitness ==
    /\ adapter.pc = "returned"
    /\ adapter.startErr = "NotFound"

\* C28: once the inner reconciler returned, a reconciler built without
\* WithDisableEndTrace calls EndTrace once; one built with it never calls
\* EndTrace and never writes to the resource on the server.
EndTraceOnceUnlessDisabled ==
    /\ [](adapter.pc = "returned" /\ adapter.reconcileCalled = 1 =>
             adapter.endTraceCalls = (IF adapter.disableEndTrace THEN 0 ELSE 1))
    /\ [](adapter.pc # "none" => adapter.endTraceCalls <= 1)
    /\ [][adapter.pc # "none" /\ adapter.disableEndTrace =>
             adapter'.endTraceCalls = 0 /\ server' = server]_vars

\* A reconciler built with WithDisableEndTrace returned, and the resource
\* has its trace annotations.
EndTraceOnceUnlessDisabledWitness ==
    /\ adapter.pc = "returned"
    /\ adapter.disableEndTrace
    /\ adapter.reconcileCalled = 1
    /\ emittedTraceParentAnnotationKey(opts) \in DOMAIN server.annotations

\* The annotations that carry trace metadata under the client's options.
TraceMetadataKeys(o) ==
    {emittedTraceParentAnnotationKey(o), emittedTraceStateAnnotationKey(o),
     legacyTraceIDAnnotationKey(o), legacySpanIDAnnotationKey(o),
     legacyTraceTimeAnnotationKey(o)}

\* The object handed to the call differed from the resource on the server in
\* trace metadata and resource version only.
OnlyTraceMetadataDiffered ==
    /\ writer.passed.content = writer.before.content
    /\ RemoveKeys(writer.passed.annotations, TraceMetadataKeys(opts))
           = RemoveKeys(writer.before.annotations, TraceMetadataKeys(opts))

\* C29: Update, Patch and Status().Patch of an object that differs from the
\* resource on the server in trace metadata and resource version only write
\* nothing: the server's resource version is the one before the call.
NoWriteForTraceMetadataOnly ==
    writer.pc = "done" /\ OnlyTraceMetadataDiffered =>
        writer.resourceVersion = writer.before.resourceVersion

\* C30: when EndTrace has returned, the resource has no emitted traceparent
\* or tracestate annotation, no legacy trace annotation and no TraceID or
\* SpanID condition.
EndTraceRemovesTraceMetadata ==
    ender.pc = "done" =>
        /\ DOMAIN server.annotations \cap TraceMetadataKeys(opts) = {}
        /\ ~server.conditions.has

\* C31: the predicate answers false for an update that changed nothing but
\* trace annotations, resource version and generation, and true for every
\* update that changed labels, finalizers, owner references, another
\* annotation, spec, status or data.
PredicateIgnoresTraceChanges ==
    event.pc = "done" =>
        /\ (event.changes \subseteq {"traceparent", "tracestate", "legacy",
                                      "resourceVersion", "generation"}
               => ~event.result)
        /\ (event.changes \cap {"labels", "finalizers", "ownerReferences", "annotation",
                                 "spec", "status", "data"} # {}
               => event.result)

\* C32: an option that is nil, or an override given an empty prefix, key or
\* suffix, a non-positive expiration, or a relationship other than link or
\* parent, leaves the options as they were before it was applied; newOptions
\* and the options return no error, so there is none to raise.
InvalidOption(option) ==
    \/ option.fn = "nil"
    \/ option.fn = "WithAnnotationPrefix" /\ option.args[1] = ""
    \/ option.fn = "WithTraceExpiration" /\ option.args[1] <= 0
    \/ option.fn = "WithTraceStateTimestampKey" /\ option.args[1] = ""
    \/ option.fn = "WithIncomingTraceParentAnnotation" /\ option.args[1] = NoKey
    \/ option.fn = "WithIncomingTraceStateAnnotation" /\ option.args[1] = NoKey
    \/ /\ option.fn = "WithIncomingTraceRelationship"
       /\ option.args[1] \notin {TraceParentRelationshipLink, TraceParentRelationshipParent}
    \/ /\ option.fn = "WithEmittedAnnotationSuffixes"
       /\ option.args[1] = ""
       /\ option.args[2] = ""

InvalidOverrideKeepsOptions ==
    (config.pc = "building" /\ config.applied > 0) =>
        /\ InvalidOption(config.last) => opts = config.before
        /\ (config.last.fn = "WithEmittedAnnotationSuffixes" /\ config.last.args[1] = "") =>
               opts.EmittedTraceParentAnnotationSuffix =
                   config.before.EmittedTraceParentAnnotationSuffix
        /\ (config.last.fn = "WithEmittedAnnotationSuffixes" /\ config.last.args[2] = "") =>
               opts.EmittedTraceStateAnnotationSuffix =
                   config.before.EmittedTraceStateAnnotationSuffix

\* An expiration set by an earlier option was kept by WithTraceExpiration(0).
InvalidOverrideKeepsOptionsWitness ==
    /\ config.pc = "building"
    /\ config.last = Option("WithTraceExpiration", <<0>>)
    /\ config.before.TraceExpiration = ShortExpiration
    /\ traceExpiration(opts) = ShortExpiration

\* C33: tq.softDeleted holds an entry for a key exactly while a worker holds
\* a unit of the key (Get moved the entry there from tq.m, Done evicts it),
\* so that a key no worker holds has no entry in tq.softDeleted.
CompletedMapHoldsCheckedOutKeys ==
    \A k \in Keys :
        /\ (k \in DOMAIN softDeleted) <=> CheckedOut(k)
        /\ CheckedOut(k) => k \notin DOMAIN m

\* C34: Forget keeps what was added for a key that is still queued or marked
\* for redelivery: the next Get returns the unit it would have returned
\* without the Forget call, the added unit for a queued key and the unit
\* with the parent added during processing merged in for a redelivered key.
ForgetKeepsPendingUnit ==
    \A k \in Keys :
        /\ Followed(k, <<"Add", "Forget", "GetKey", "GetRead">>) =>
               hist[k][4].req = hist[k][1].req
        /\ Followed(k, <<"Add", "GetKey", "GetRead", "Add", "Forget", "Done",
                         "GetKey", "GetRead">>) =>
               hist[k][8].req = MergeParent(hist[k][1].req, hist[k][4].req)

\* C35: the extraction never returns a malformed traceparent: a candidate key
\* that holds one does not match, and the context returned, if any, comes
\* from a later candidate or the legacy annotations and is well-formed.
MalformedCandidateSkipped ==
    (extracted.done /\ extracted.ok) =>
        ~SpanContextFromTraceData(extracted.stored.TraceParent,
                                  extracted.stored.TraceState).err

\* C36: every non-empty linked span of the request handed to StartTrace is a
\* link of the span StartTrace starts, whether the parent came from the live
\* context, the persisted carrier, the conditions or there is none.
LinkedSpansAttached ==
    (adapter.pc = "started" \/ (adapter.pc = "returned" /\ adapter.startErr # "")) =>
        \A i \in 1..Len(adapter.req.LinkedSpans) :
            LET linkedSpan == adapter.req.LinkedSpans[i] IN
            linkedSpan # EmptyRef =>
                Contains(started.links,
                         SpanContext(linkedSpan.TraceID, linkedSpan.SpanID, TRUE))

\* C37: a resource that carries the emitted traceparent annotation carries
\* the emitted tracestate annotation too, with the timestamp entry under the
\* reserved key: the system writes the two together.
CarriesTimestamp(res) ==
    emittedTraceParentAnnotationKey(opts) \in DOMAIN res.annotations =>
        /\ emittedTraceStateAnnotationKey(opts) \in DOMAIN res.annotations
        /\ ExtractTimestampFromTraceState(
               res.annotations[emittedTraceStateAnnotationKey(opts)],
               traceStateTimestampKey(opts)).ok

EmittedTraceParentHasTimestamp == CarriesTimestamp(obj) /\ CarriesTimestamp(server)

\* C38 (as stated): an Add of a non-empty parent onto a stored unit without
\* a parent leaves the stored parent empty and makes the new parent a linked
\* span; an Add without a parent onto a stored unit with a parent leaves the
\* stored unit as it is.
EmptyParentMergeAlwaysLinks ==
    [][\A req \in EmptyCapRequests :
          (Add(req) /\ req.NamespacedName \in DOMAIN m) =>
              LET k == req.NamespacedName IN
              /\ (m[k].Parent = EmptyRef /\ req.Parent # EmptyRef) =>
                     /\ m'[k].Parent = EmptyRef
                     /\ Contains(m'[k].LinkedSpans, req.Parent)
              /\ (m[k].Parent # EmptyRef /\ req.Parent = EmptyRef) =>
                     m'[k] = m[k]]_vars

\* C38 (as amended): the same, but a stored unit that already has
\* MaxLinkedSpans linked spans, the new parent not among them, stays as it is.
EmptyParentMergeLinks ==
    [][\A req \in EmptyCapRequests :
          (Add(req) /\ req.NamespacedName \in DOMAIN m) =>
              LET k == req.NamespacedName IN
              /\ (m[k].Parent = EmptyRef /\ req.Parent # EmptyRef) =>
                     /\ m'[k].Parent = EmptyRef
                     /\ \/ Contains(m'[k].LinkedSpans, req.Parent)
                        \/ /\ LinkedSpanCount(m[k]) = MaxLinkedSpans
                           /\ m'[k] = m[k]
                     /\ LinkedSpanCount(m[k]) < MaxLinkedSpans =>
                            Contains(m'[k].LinkedSpans, req.Parent)
              /\ (m[k].Parent # EmptyRef /\ req.Parent = EmptyRef) =>
                     m'[k] = m[k]]_vars

\* A stored unit without a parent has MaxLinkedSpans linked spans and the
\* parent of a further Add was dropped.
EmptyParentMergeLinksWitness ==
    \E k \in DOMAIN m :
        /\ m[k].Parent = EmptyRef
        /\ LinkedSpanCount(m[k]) = MaxLinkedSpans
        /\ k \in dropped

====
